---- MODULE Spec2Model ----
(***************************************************************************)
(* A model of box2docx.py: the conversion of one or several .boxnote JSON  *)
(* content trees into word-processing documents.                           *)
(*                                                                         *)
(* The module-level globals of the script are the state.  The recursive    *)
(* walk (parse_contents -> parse_content_type -> handler -> parse_contents)*)
(* is modelled with an explicit call stack: every handler has one action   *)
(* for the code it runs up to its recursive call (or up to its return when *)
(* it does not recurse) and one action for the code after the recursive    *)
(* call returned.  A Python exception unwinds the whole stack inside the   *)
(* action that raises it and ends in convert_boxnote's except clause.      *)
(*                                                                         *)
(* Strings are sequences of code points, so that string building and       *)
(* searching is modelled by what it does.                                  *)
(***************************************************************************)
EXTENDS Integers, Sequences, FiniteSets, TLC

VARIABLES
    \* ---- the script's module globals (box2docx.py lines 29-51) ----
    document,                   \* the output Document being built
    current_paragraph,          \* reference to a paragraph
    current_path,               \* absolute path of the .boxnote being converted
    use_table_cell_paragraph,
    current_table_cell,
    list_type,
    list_depths,
    bullet_list_level,
    ordered_list_level,
    check_list_level,
    in_bullet_list_item,
    in_ordered_list_item,
    in_check_list_item,
    is_check_list_item_checked,
    in_callout,
    callout_emoji,
    callout_bg_color,
    in_code_block,
    \* ---- control state of the interpreter ----
    stack,                      \* call stack of the walk, bottom first
    output,                     \* the shadow-text value being passed / returned
    ret,                        \* what the last convert_boxnote call returned
    exc,                        \* the exception the last conversion ended with
    saves,                      \* document.save calls of the current conversion
    nconv,                      \* convert_boxnote calls so far in this process
    bn,                         \* index (in Corpus) of the note being converted
    \* ---- command line and file system ----
    DRY_RUN,                    \* --dry-run was given
    UPDATE_LEGACY_BOXNOTES,     \* --update_legacy_boxnotes was given
    output_exists,              \* the output path (the note's .docx) exists on disk
    \* ---- observation of repeated transpiles ----
    first,                      \* the first conversion of the process and its result
    declared,                   \* the checked state the document's check-list items last
                                \* declared: "none", "checked" or "unchecked"
    \* ---- argument / result of the pure functions applied on their own ----
    fn_in,
    fn_out

globals == <<document, current_paragraph, current_path, use_table_cell_paragraph,
             current_table_cell, list_type, list_depths, bullet_list_level,
             ordered_list_level, check_list_level, in_bullet_list_item,
             in_ordered_list_item, in_check_list_item, is_check_list_item_checked,
             in_callout, callout_emoji, callout_bg_color, in_code_block>>

control == <<stack, output, ret, exc, saves, nconv, bn>>

env_vars == <<DRY_RUN, UPDATE_LEGACY_BOXNOTES, output_exists>>

vars == <<globals, control, env_vars, first, declared, fn_in, fn_out>>

\* groups used in UNCHANGED clauses
cursor_vars == <<document, current_paragraph, use_table_cell_paragraph, current_table_cell>>
level_vars == <<bullet_list_level, ordered_list_level, check_list_level>>
item_vars == <<in_bullet_list_item, in_ordered_list_item, in_check_list_item>>
list_vars == <<list_type, list_depths, level_vars, item_vars, is_check_list_item_checked>>
callout_vars == <<in_callout, callout_emoji, callout_bg_color>>
pure_vars == <<fn_in, fn_out>>

----------------------------------------------------------------------------
(* Bounds of the model *)

\* convert_boxnote calls per process (the batch loop of convert_dir)
MaxDocs == 2
\* the grids and the declared cells the table resolver is applied to on its own
MaxGridRows == 2
MaxGridCols == 2
MaxCells == 4
\* the table nodes get_table_dimensions is applied to on its own
MaxTableRows == 2
MaxRowCells == 2
\* the levels and ordinals get_ordered_list_char is applied to on its own
MaxLevel == 6
MaxOrdinal == 60
\* how many directories below a Box root the notes of the image search lie
MaxDirDepth == 2
\* how many marks the paragraphs of the alignment loop carry
MaxMarks == 3
\* how many attempts to open the note the file system's behaviour is given for
MaxAttempts == 7

----------------------------------------------------------------------------
(* Strings: sequences of code points *)

\* Python's None where a string is expected (output, callout_emoji, callout_bg_color)
NoneVal == <<-1>>

STR_NL == <<10>>
STR_SP == <<32>>
STR_EMPTY == <<>>
\* INDENT = "    "
INDENT == <<32, 32, 32, 32>>
\* "• "
STR_BULLET == <<8226, 32>>
\* "☑ " and "☐ "
STR_CHECKED == <<9745, 32>>
STR_UNCHECKED == <<9744, 32>>
\* "- "
STR_DASH == <<45, 32>>
\* "  "
STR_PAD == <<32, 32>>
\* "image: "
STR_IMAGE == <<105, 109, 97, 103, 101, 58, 32>>
\* "MISSING IMAGE: "
STR_MISSING == <<77, 73, 83, 83, 73, 78, 71, 32, 73, 77, 65, 71, 69, 58, 32>>
\* "<Table ", " x ", ">"
STR_TABLE == <<60, 84, 97, 98, 108, 101, 32>>
STR_X == <<32, 120, 32>>
STR_GT == <<62>>
\* "\n----------\n"
STR_RULE == <<10, 45, 45, 45, 45, 45, 45, 45, 45, 45, 45, 10>>
\* "ccdff7"
STR_CODE_BG == <<99, 99, 100, 102, 102, 55>>

RECURSIVE Repeat(_, _)
\* s * n
Repeat(s, n) == IF n <= 0 THEN <<>> ELSE s \o Repeat(s, n - 1)

RECURSIVE str(_)
\* Python's str() of a non-negative integer
str(n) == IF n < 10 THEN <<48 + n>> ELSE str(n \div 10) \o <<48 + (n % 10)>>

\* s.find(ch) > -1 for a one-character string ch
Contains(s, ch) == \E i \in 1..Len(s) : s[i] = ch

----------------------------------------------------------------------------
(* Exceptions *)

NoExc == [type |-> "None", at |-> "None"]
Exc(type, at) == [type |-> type, at |-> at]

----------------------------------------------------------------------------
(* Ordinal formatter: get_ordered_list_char *)

RECURSIVE Base26Digits(_)
\* the while loop of lines 822-824: digits.insert(0, n % 26); n = n // 26
Base26Digits(n) == IF n > 0 THEN Base26Digits(n \div 26) \o <<n % 26>> ELSE <<>>

\* the table roman.toRoman walks, as (integer, numeral) pairs, numerals in upper case
romanNumeralMap ==
    << <<1000, <<77>>>>, <<900, <<67, 77>>>>, <<500, <<68>>>>, <<400, <<67, 68>>>>,
       <<100, <<67>>>>, <<90, <<88, 67>>>>, <<50, <<76>>>>, <<40, <<88, 76>>>>,
       <<10, <<88>>>>, <<9, <<73, 88>>>>, <<5, <<86>>>>, <<4, <<73, 86>>>>,
       <<1, <<73>>>> >>

RECURSIVE toRomanFrom(_, _)
toRomanFrom(n, k) ==
    IF n <= 0 \/ k > Len(romanNumeralMap) THEN <<>>
    ELSE IF n >= romanNumeralMap[k][1]
         THEN romanNumeralMap[k][2] \o toRomanFrom(n - romanNumeralMap[k][1], k)
         ELSE toRomanFrom(n, k + 1)

\* roman.toRoman(n), defined for 0 < n < 5000 (it raises OutOfRangeError otherwise)
toRoman(n) == toRomanFrom(n, 1)
toRomanInRange(n) == 0 < n /\ n < 5000

\* str.lower()
lower(s) == [i \in 1..Len(s) |-> IF 65 <= s[i] /\ s[i] <= 90 THEN s[i] + 32 ELSE s[i]]

get_ordered_list_char(level, list_depth) ==
    LET a == level % 3 IN
    IF a = 1 THEN str(list_depth) \o <<46>>
    ELSE IF a = 2
         THEN LET digits == Base26Digits(list_depth)
              IN  [i \in 1..Len(digits) |-> digits[i] + 96] \o <<46>>
         ELSE lower(toRoman(list_depth)) \o <<46>>

\* whether get_ordered_list_char(level, list_depth) raises (roman's range check)
get_ordered_list_char_raises(level, list_depth) ==
    level % 3 = 0 /\ ~toRomanInRange(list_depth)

----------------------------------------------------------------------------
(* Table geometry resolver *)

IsType(obj, t) == "type" \in DOMAIN obj /\ obj.type = t

RECURSIVE SumColspans(_, _)
\* the loop of lines 714-721 over the first row's content, from index i on
SumColspans(row_content, i) ==
    IF i > Len(row_content) THEN 0
    ELSE LET row_obj == row_content[i] IN
         (IF IsType(row_obj, "table_cell") /\ "attrs" \in DOMAIN row_obj
             /\ "colspan" \in DOMAIN row_obj.attrs
          THEN row_obj.attrs.colspan ELSE 0)
         + SumColspans(row_content, i + 1)

get_table_dimensions(content_obj) ==
    IF "content" \notin DOMAIN content_obj
    THEN [err |-> Exc("KeyError", "get_table_dimensions"), num_rows |-> 0, num_cols |-> 0]
    ELSE LET row_objs == content_obj.content IN
         IF Len(row_objs) = 0
         THEN [err |-> Exc("IndexError", "get_table_dimensions"), num_rows |-> 0, num_cols |-> 0]
         ELSE IF "content" \notin DOMAIN row_objs[1]
         THEN [err |-> Exc("KeyError", "get_table_dimensions"), num_rows |-> 0, num_cols |-> 0]
         ELSE [err |-> NoExc, num_rows |-> Len(row_objs),
               num_cols |-> SumColspans(row_objs[1].content, 1)]

get_cell_tracking_table(r, c) == [i \in 0..(r - 1) |-> [j \in 0..(c - 1) |-> FALSE]]

IsTableCell(obj) == IsType(obj, "table_cell")

RECURSIVE CellObjsFrom(_, _)
\* the outer loop of get_table_cell_objs from row index i on
CellObjsFrom(rows, i) ==
    IF i > Len(rows) THEN [err |-> NoExc, objs |-> <<>>]
    ELSE IF ~IsType(rows[i], "table_row") THEN CellObjsFrom(rows, i + 1)
    ELSE IF "content" \notin DOMAIN rows[i]
         THEN [err |-> Exc("KeyError", "get_table_cell_objs"), objs |-> <<>>]
         ELSE LET rest == CellObjsFrom(rows, i + 1) IN
              [err |-> rest.err,
               objs |-> SelectSeq(rows[i].content, IsTableCell) \o rest.objs]

\* called after get_table_dimensions succeeded, so content_obj has content
get_table_cell_objs(content_obj) == CellObjsFrom(content_obj.content, 1)

\* rowspan / colspan of a cell declaration as get_table_cell_merges reads them
RowspanOf(obj) ==
    IF "attrs" \in DOMAIN obj /\ "rowspan" \in DOMAIN obj.attrs THEN obj.attrs.rowspan ELSE 1
ColspanOf(obj) ==
    IF "attrs" \in DOMAIN obj /\ "colspan" \in DOMAIN obj.attrs THEN obj.attrs.colspan ELSE 1

\* len(cell_tracking), len(cell_tracking[i_row])
NumRows(cell_tracking) == Cardinality(DOMAIN cell_tracking)
NumCols(cell_tracking) == IF NumRows(cell_tracking) = 0 THEN 0
                          ELSE Cardinality(DOMAIN cell_tracking[0])

\* lines 678-680: mark the rowspan x colspan rectangle
MarkRectangle(cell_tracking, i_row, i_col, rowspan, colspan) ==
    [i \in DOMAIN cell_tracking |-> [j \in DOMAIN cell_tracking[i] |->
        IF i_row <= i /\ i < i_row + rowspan /\ i_col <= j /\ j < i_col + colspan
        THEN TRUE ELSE cell_tracking[i][j]]]

\* VisitCell marking the origin alone, never the rest of the rowspan x colspan rectangle
VisitCellOriginOnly(st, i_row, i_col) ==
    IF st.cell_tracking[i_row][i_col] THEN st
    ELSE LET marked == [st.cell_tracking EXCEPT ![i_row][i_col] = TRUE] IN
         IF st.queue = <<>>
         THEN [st EXCEPT !.cell_tracking = marked,
                         !.err = Exc("IndexError", "table_cell_objs_copy.pop")]
         ELSE LET table_cell_obj == Head(st.queue)
                  rowspan == RowspanOf(table_cell_obj)
                  colspan == ColspanOf(table_cell_obj)
                  popped == [st EXCEPT !.cell_tracking = marked,
                                       !.queue = Tail(st.queue),
                                       !.placed = Append(@, [row_idx |-> i_row, col_idx |-> i_col])]
              IN  IF rowspan > 1 \/ colspan > 1
                  THEN [popped EXCEPT !.cell_merges =
                           Append(@, [at |-> <<i_row, i_col>>, span |-> <<rowspan, colspan>>])]
                  ELSE popped

\* lines 661-680 for one grid position.  st: the tracking table, the declarations not
\* yet popped (queue), the merges recorded, the (row_idx, col_idx) written into the
\* popped declarations, in pop order (placed), and the exception raised, if any.
VisitCell(st, i_row, i_col) ==
    IF st.cell_tracking[i_row][i_col] THEN st
    ELSE LET marked == [st.cell_tracking EXCEPT ![i_row][i_col] = TRUE] IN
         IF st.queue = <<>>
         THEN [st EXCEPT !.cell_tracking = marked,
                         !.err = Exc("IndexError", "table_cell_objs_copy.pop")]
         ELSE LET table_cell_obj == Head(st.queue)
                  rowspan == RowspanOf(table_cell_obj)
                  colspan == ColspanOf(table_cell_obj)
                  popped == [st EXCEPT !.cell_tracking = marked,
                                       !.queue = Tail(st.queue),
                                       !.placed = Append(@, [row_idx |-> i_row, col_idx |-> i_col])]
              IN  IF rowspan > 1 \/ colspan > 1
                  THEN LET merged == [popped EXCEPT !.cell_merges =
                                         Append(@, [at |-> <<i_row, i_col>>,
                                                    span |-> <<rowspan, colspan>>])]
                       IN  IF i_row + rowspan > NumRows(marked) \/ i_col + colspan > NumCols(marked)
                           THEN [merged EXCEPT !.err = Exc("IndexError", "cell_tracking")]
                           ELSE [merged EXCEPT !.cell_tracking =
                                    MarkRectangle(marked, i_row, i_col, rowspan, colspan)]
                  ELSE popped

RECURSIVE ScanFrom(_, _)
\* the two nested loops of lines 659-660, from the p-th grid position (row-major) on
ScanFrom(st, p) ==
    LET r == NumRows(st.cell_tracking)
        c == NumCols(st.cell_tracking)
    IN  IF st.err # NoExc \/ p >= r * c THEN st
        ELSE ScanFrom(VisitCell(st, p \div c, p % c), p + 1)

get_table_cell_merges(cell_tracking, table_cell_objs) ==
    ScanFrom([cell_tracking |-> cell_tracking, queue |-> table_cell_objs,
              cell_merges |-> <<>>, placed |-> <<>>, err |-> NoExc], 0)

----------------------------------------------------------------------------
(* The Document Sink (python-docx), as far as the script uses it.  A document is *)
(* its paragraphs in creation order (each in the body or in a table cell), its   *)
(* tables, and the order of the body's blocks.  A cell's first, initially empty  *)
(* paragraph is entered in paras when the script first asks for it.              *)

NoParagraph == [doc |-> 0, idx |-> 0]
NoCell == [doc |-> 0, table |-> 0, row |-> 0, col |-> 0]
\* where a body paragraph lives
InBody == [table |-> 0, row |-> 0, col |-> 0]
NoDocument == [id |-> 0, paras |-> <<>>, tables |-> <<>>, body |-> <<>>]

\* Document()
Document(id) == [id |-> id, paras |-> <<>>, tables |-> <<>>, body |-> <<>>]

CellAt(cell) == [table |-> cell.table, row |-> cell.row, col |-> cell.col]

NewParagraph(at, is_first) ==
    [at |-> at, is_first |-> is_first, runs |-> <<>>, alignment |-> "None", rule |-> FALSE]

NewRun(text) ==
    [text |-> text, hyperlink |-> NoneVal, picture |-> <<NoneVal>>, width |-> 0,
     bold |-> FALSE, italic |-> FALSE, underline |-> FALSE, strike |-> FALSE,
     color |-> NoneVal, highlight |-> NoneVal, size |-> NoneVal,
     name |-> "None", shd |-> NoneVal]

\* document.add_paragraph(): a new paragraph at the end of the body
add_paragraph(d) ==
    [doc |-> [d EXCEPT !.paras = Append(@, NewParagraph(InBody, FALSE)),
                       !.body = Append(@, <<"p", Len(d.paras) + 1>>)],
     par |-> [doc |-> d.id, idx |-> Len(d.paras) + 1]]

\* cell.add_paragraph().  A cell of an earlier Document takes the paragraph into
\* that document, which is no longer observed.
cell_add_paragraph(d, cell) ==
    IF cell.doc # d.id THEN [doc |-> d, par |-> [doc |-> cell.doc, idx |-> 0]]
    ELSE [doc |-> [d EXCEPT !.paras = Append(@, NewParagraph(CellAt(cell), FALSE))],
          par |-> [doc |-> d.id, idx |-> Len(d.paras) + 1]]

\* cell.paragraphs[0]
cell_first_paragraph(d, cell) ==
    IF cell.doc # d.id THEN [doc |-> d, par |-> [doc |-> cell.doc, idx |-> 0]]
    ELSE LET have == {i \in 1..Len(d.paras) :
                         d.paras[i].at = CellAt(cell) /\ d.paras[i].is_first}
         IN  IF have # {}
             THEN [doc |-> d, par |-> [doc |-> d.id, idx |-> CHOOSE i \in have : TRUE]]
             ELSE [doc |-> [d EXCEPT !.paras = Append(@, NewParagraph(CellAt(cell), TRUE))],
                   par |-> [doc |-> d.id, idx |-> Len(d.paras) + 1]]

\* whether a paragraph reference points into document d
Live(d, par) == par.doc = d.id /\ par.doc # 0 /\ par.idx \in 1..Len(d.paras)

\* paragraph.add_run(text), and the general form with the run's fields given
append_run(d, par, run) ==
    IF Live(d, par) THEN [d EXCEPT !.paras[par.idx].runs = Append(@, run)] ELSE d
add_run(d, par, text) == append_run(d, par, NewRun(text))

\* paragraph.runs: the runs that are direct children of the paragraph; a run
\* appended inside a w:hyperlink element (lines 432-438) is not one of them
IsDirectRun(run) == run.hyperlink = NoneVal

\* document.add_table(rows, cols, style): a new table at the end of the body
add_table(d, rows, cols, style) ==
    [doc |-> [d EXCEPT !.tables = Append(@, [rows |-> rows, cols |-> cols, style |-> style,
                                            merges |-> <<>>, fill |-> NoneVal]),
                       !.body = Append(@, <<"t", Len(d.tables) + 1>>)],
     table |-> Len(d.tables) + 1]

\* table.cell(row, col)
table_cell(d, table, row, col) == [doc |-> d.id, table |-> table, row |-> row, col |-> col]

\* set_cell_background_color(cell, bgcolor), lines 879-884, for the single cell
\* of a one-cell table (the only use the script makes of it)
set_cell_background_color(d, table, bgcolor) == [d EXCEPT !.tables[table].fill = bgcolor]

\* merge_table_cells(table, cell_merges), lines 642-649
merge_table_cells(d, table, cell_merges) == [d EXCEPT !.tables[table].merges = cell_merges]

\* whether two merge rectangles of cell_merges share a grid cell
MergesOverlap(cell_merges) ==
    \E i, j \in 1..Len(cell_merges) :
        /\ i < j
        /\ LET a == cell_merges[i]
               b == cell_merges[j]
           IN  /\ a.at[1] < b.at[1] + b.span[1] /\ b.at[1] < a.at[1] + a.span[1]
               /\ a.at[2] < b.at[2] + b.span[2] /\ b.at[2] < a.at[2] + a.span[2]

----------------------------------------------------------------------------
(* Marks *)

HasMark(obj, t) ==
    "marks" \in DOMAIN obj /\ \E i \in 1..Len(obj.marks) : IsType(obj.marks[i], t)

\* a mark of type t that carries attrs[key] (lines 395-423)
IsAttrMark(mark_obj, t, key) ==
    IsType(mark_obj, t) /\ "attrs" \in DOMAIN mark_obj /\ key \in DOMAIN mark_obj.attrs

\* the value the loop of lines 385-423 leaves for an attribute mark: that of the
\* last such mark, or None
LastAttr(obj, t, key) ==
    IF "marks" \notin DOMAIN obj THEN NoneVal
    ELSE LET hits == {i \in 1..Len(obj.marks) : IsAttrMark(obj.marks[i], t, key)}
         IN  IF hits = {} THEN NoneVal
             ELSE obj.marks[CHOOSE i \in hits : \A j \in hits : j <= i].attrs[key]

RECURSIVE AlignmentFrom(_, _, _)
\* the loop of lines 352-364 from mark i on, alignment being the value so far
AlignmentFrom(marks, i, alignment) ==
    IF i > Len(marks) THEN alignment
    ELSE LET mark_obj == marks[i] IN
         AlignmentFrom(marks, i + 1,
            IF IsAttrMark(mark_obj, "alignment", "alignment")
            THEN (IF mark_obj.attrs.alignment = "center" THEN "CENTER"
                  ELSE IF mark_obj.attrs.alignment = "right" THEN "RIGHT"
                  ELSE IF mark_obj.attrs.alignment = "justify" THEN "JUSTIFY"
                  ELSE alignment)
            ELSE alignment)

\* lines 350-364
ParagraphAlignment(content_obj) ==
    IF "marks" \in DOMAIN content_obj THEN AlignmentFrom(content_obj.marks, 1, "LEFT")
    ELSE "LEFT"

----------------------------------------------------------------------------
(* Style mapper *)

\* highlight_map lookup with the YELLOW default (lines 412-416)
highlight_color(hex) ==
    IF hex = <<35, 102, 100, 102, 48, 100, 49>> THEN "YELLOW"   \* #fdf0d1
    ELSE IF hex = <<35, 100, 52, 102, 51, 101, 54>> THEN "BRIGHT_GREEN"   \* #d4f3e6
    ELSE IF hex = <<35, 101, 99, 100, 57, 102, 98>> THEN "PINK"   \* #ecd9fb
    ELSE IF hex = <<35, 102, 99, 101, 54, 100, 49>> THEN "GRAY_50"   \* #fce6d1
    ELSE IF hex = <<35, 99, 99, 100, 102, 102, 55>> THEN "TURQUOISE"   \* #ccdff7
    ELSE IF hex = <<35, 102, 98, 100, 55, 100, 100>> THEN "RED"   \* #fbd7dd
    ELSE IF hex = <<35, 101, 56, 101, 56, 101, 56>> THEN "GRAY_25"   \* #e8e8e8
    ELSE "YELLOW"

\* int(c, 16) of one character, -1 when it is no hexadecimal digit
HexDigit(c) ==
    IF 48 <= c /\ c <= 57 THEN c - 48
    ELSE IF 97 <= c /\ c <= 102 THEN c - 87
    ELSE IF 65 <= c /\ c <= 70 THEN c - 55
    ELSE -1

\* int(hex[a:a+2], 16) for the two characters at (1-based) positions a+1, a+2;
\* -1 stands for the ValueError of a slice that is no hexadecimal numeral
HexPair(hex, a) ==
    IF Len(hex) < a + 1 THEN -1
    ELSE IF Len(hex) = a + 1
         THEN HexDigit(hex[a + 1])
         ELSE IF HexDigit(hex[a + 1]) < 0 \/ HexDigit(hex[a + 2]) < 0 THEN -1
              ELSE 16 * HexDigit(hex[a + 1]) + HexDigit(hex[a + 2])

\* get_color_from_hex (lines 836-840): RGBColor(r, g, b), or the ValueError
get_color_from_hex(hex) ==
    LET r == HexPair(hex, 1)
        g == HexPair(hex, 3)
        b == HexPair(hex, 5)
    IN  IF r < 0 \/ g < 0 \/ b < 0
        THEN [err |-> Exc("ValueError", "get_color_from_hex"), rgb |-> NoneVal]
        ELSE [err |-> NoExc, rgb |-> <<r, g, b>>]

\* heading_level_to_size_map (line 63), keyed by str(level), in points
HeadingSize(content_obj) ==
    IF "attrs" \in DOMAIN content_obj /\ "level" \in DOMAIN content_obj.attrs
    THEN LET heading_level == str(content_obj.attrs.level) IN
         IF heading_level = <<49>> THEN <<28>>
         ELSE IF heading_level = <<50>> THEN <<20>>
         ELSE IF heading_level = <<51>> THEN <<16>>
         ELSE <<28>>
    ELSE <<28>>

----------------------------------------------------------------------------
(* The call stack of the walk *)

Walking == stack # <<>>
Top == stack[Len(stack)]
\* the frame of the function that called the parse_contents on top
Caller == stack[Len(stack) - 1]

ContentsFrame(content_objs) == [fn |-> "parse_contents", content_objs |-> content_objs, i |-> 1]

\* parse_contents is about to look at its next content_obj
AtNode == Walking /\ Top.fn = "parse_contents" /\ Top.i <= Len(Top.content_objs)
Node == Top.content_objs[Top.i]
\* ... and parse_content_type dispatches it to the handler of type t
At(t) == AtNode /\ IsType(Node, t)

\* the loop of parse_contents moved on to the next content_obj
Advanced == [stack EXCEPT ![Len(stack)].i = @ + 1]

\* the handler dispatched to calls parse_contents(content_objs, out)
Call(frame, content_objs, out) ==
    /\ stack' = Advanced \o <<frame, ContentsFrame(content_objs)>>
    /\ output' = out
    /\ UNCHANGED <<ret, exc, saves, nconv, bn>>

\* the handler dispatched to returns out without having recursed
Return(out) ==
    /\ stack' = Advanced
    /\ output' = out
    /\ UNCHANGED <<ret, exc, saves, nconv, bn>>

\* the parse_contents called by function fn has reached the end of its list
Returned(fn) ==
    /\ Len(stack) >= 2
    /\ Top.fn = "parse_contents"
    /\ Top.i > Len(Top.content_objs)
    /\ Caller.fn = fn

\* ... and fn returns out to the parse_contents that dispatched to it
ReturnFrom(out) ==
    /\ stack' = SubSeq(stack, 1, Len(stack) - 2)
    /\ output' = out
    /\ UNCHANGED <<ret, exc, saves, nconv, bn>>

\* Raise without convert_boxnote's except clause: the exception leaves convert_boxnote
RaisePropagates(e) ==
    /\ stack' = <<>>
    /\ output' = output
    /\ ret' = "raised"
    /\ exc' = e
    /\ UNCHANGED <<saves, nconv, bn>>

\* Raise with the save in a finally clause: what was built is written out
RaiseThenSave(e) ==
    /\ stack' = <<>>
    /\ output' = output
    /\ ret' = "False"
    /\ exc' = e
    /\ saves' = saves + 1
    /\ UNCHANGED <<nconv, bn>>

\* An exception raised in the walk: no handler catches, so it unwinds to
\* convert_boxnote, whose `except Exception` (lines 218-221) returns False.
Raise(e) ==
    /\ stack' = <<>>
    /\ output' = output
    /\ ret' = "False"
    /\ exc' = e
    /\ UNCHANGED <<saves, nconv, bn>>

\* output + s, which is a TypeError when output is None
CanConcat(out) == out # NoneVal

----------------------------------------------------------------------------
(* Paths: a path is the sequence of its components below "/", each a string *)

\* os.path.split
split(path) ==
    IF path = <<>> THEN [base_path |-> <<>>, tail |-> STR_EMPTY]
    ELSE [base_path |-> SubSeq(path, 1, Len(path) - 1), tail |-> path[Len(path)]]

\* pathlib's stem: the last component without its last suffix
stem(name) ==
    LET dots == {i \in 2..Len(name) : name[i] = 46} IN
    IF dots = {} THEN name
    ELSE SubSeq(name, 1, (CHOOSE i \in dots : \A j \in dots : j <= i) - 1)

\* HOME = "/h", and the two recognised Box roots (lines 70-73)
HOME == << <<104>> >>
OS_X_BOX_ROOT == HOME \o << <<76, 105, 98, 114, 97, 114, 121>>, <<67, 108, 111, 117, 100, 83, 116, 111, 114, 97, 103, 101>>, <<66, 111, 120, 45, 66, 111, 120>> >>
WIN_BOX_ROOT == HOME \o << <<66, 111, 120>> >>
BOX_ROOTS == {OS_X_BOX_ROOT, WIN_BOX_ROOT}

\* "Box Notes Images" and " Images"
STR_BOX_NOTES_IMAGES == <<66, 111, 120, 32, 78, 111, 116, 101, 115, 32, 73, 109, 97, 103, 101, 115>>
STR_IMAGES == <<32, 73, 109, 97, 103, 101, 115>>

\* file names used by the notes of the corpus: "a.boxnote", "i.png", "j.png"; "k.png"
\* and the directory "q" are used by the image search on its own
NOTE_A == <<97, 46, 98, 111, 120, 110, 111, 116, 101>>
IMG_I == <<105, 46, 112, 110, 103>>
IMG_J == <<106, 46, 112, 110, 103>>
IMG_K == <<107, 46, 112, 110, 103>>
DIR_P == <<112>>
DIR_Q == <<113>>

\* where the notes of the corpus live: /h/Box/p/a.boxnote
NotePath == WIN_BOX_ROOT \o <<DIR_P, NOTE_A>>

\* the image files that exist: /h/Box/p/Box Notes Images/a Images/i.png and, outside
\* the Box roots, /h/Box Notes Images/a Images/k.png
ExistingFiles ==
    { WIN_BOX_ROOT \o <<DIR_P, STR_BOX_NOTES_IMAGES, stem(NOTE_A) \o STR_IMAGES, IMG_I>>,
      HOME \o <<STR_BOX_NOTES_IMAGES, stem(NOTE_A) \o STR_IMAGES, IMG_K>> }

NoPath == << NoneVal >>

RECURSIVE SearchImage(_, _, _, _)
\* the while loop of lines 859-869
SearchImage(base_path, tail, extra_path, img_file_name) ==
    IF tail = STR_EMPTY THEN NoPath
    ELSE LET img_file_path == base_path \o extra_path \o <<img_file_name>> IN
         IF img_file_path \in ExistingFiles THEN img_file_path
         ELSE LET up == split(base_path) IN
              IF up.base_path \in BOX_ROOTS THEN NoPath
              ELSE SearchImage(up.base_path, up.tail, extra_path, img_file_name)

\* get_image_path answering with the path beside the note when the search finds nothing
get_image_path_beside(img_file_name) ==
    LET here == split(current_path)
        file_name == SubSeq(here.tail, 1, Len(here.tail) - 8)
        extra_path == <<STR_BOX_NOTES_IMAGES, file_name \o STR_IMAGES>>
        found == SearchImage(here.base_path, here.tail, extra_path, img_file_name)
    IN  IF found = NoPath THEN here.base_path \o extra_path \o <<img_file_name>> ELSE found

get_image_path(img_file_name) ==
    LET here == split(current_path)
        file_name == SubSeq(here.tail, 1, Len(here.tail) - 8)
        extra_path == <<STR_BOX_NOTES_IMAGES, file_name \o STR_IMAGES>>
    IN  SearchImage(here.base_path, here.tail, extra_path, img_file_name)

\* in_to_emu (lines 875-876)
in_to_emu(inches) == inches * 914400

----------------------------------------------------------------------------
(* The notes converted: content trees as the JSON gives them.  A node is a  *)
(* record that has exactly the keys the JSON object has.                    *)

TXT_X == <<120>>
TXT_Y == <<121>>
\* "#fff" and an emoji
BG_F == <<35, 102, 102, 102>>
EMOJI == <<128161>>
\* "#000" and another emoji
BG_G == <<35, 48, 48, 48>>
EMOJI_B == <<128293>>

Text(t) == [type |-> "text", text |-> t]
Para(t) == [type |-> "paragraph", content |-> <<Text(t)>>]
BulletList(items) == [type |-> "bullet_list", content |-> items]
OrderedList(items) == [type |-> "ordered_list", content |-> items]
CheckList(items) == [type |-> "check_list", content |-> items]
ListItem(content) == [type |-> "list_item", content |-> content]
CheckItem(checked, content) ==
    [type |-> "check_list_item", attrs |-> [checked |-> checked], content |-> content]
\* a cell declaration with spans, and a plain one (no attrs)
Cell(rowspan, colspan, content) ==
    [type |-> "table_cell", attrs |-> [rowspan |-> rowspan, colspan |-> colspan],
     content |-> content]
PlainCell(content) == [type |-> "table_cell", content |-> content]
Row(cells) == [type |-> "table_row", content |-> cells]
Table(rows) == [type |-> "table", content |-> rows]
Image(name) == [type |-> "image", attrs |-> [fileName |-> name]]
Note(content) == [path |-> NotePath, bn_json |-> [doc |-> [content |-> content]]]

\* a bullet list holding an ordered list holding a check list
NestedLists(check_list) ==
    BulletList(<< ListItem(<< Para(TXT_X),
        OrderedList(<< ListItem(<< Para(TXT_X), check_list >>),
                       ListItem(<< Para(TXT_Y) >>) >>) >>) >>)

Corpus == <<
    \* 1: two paragraphs
    Note(<< Para(TXT_X), Para(TXT_Y) >>),
    \* 2: headings, an empty paragraph, a node of unknown type, a node without type, blockquotes
    Note(<< [type |-> "heading", attrs |-> [level |-> 2], content |-> <<Text(TXT_X)>>],
            [type |-> "heading"],
            [type |-> "paragraph"],
            [type |-> "mention", content |-> <<Text(TXT_X)>>],
            [content |-> <<Text(TXT_X)>>],
            [type |-> "blockquote", content |-> <<Para(TXT_X)>>],
            [type |-> "blockquote"] >>),
    \* 3: the legacy format (no doc key)
    [path |-> NotePath, bn_json |-> [version |-> 1]],
    \* 4: a doc without content
    [path |-> NotePath, bn_json |-> [doc |-> [version |-> 1]]],
    \* 5: marks on text and paragraph; a malformed font colour
    Note(<< [type |-> "paragraph",
             marks |-> << [type |-> "alignment", attrs |-> [alignment |-> "center"]] >>,
             content |-> << [type |-> "text", text |-> TXT_X,
                             marks |-> << [type |-> "strong"], [type |-> "em"],
                                          [type |-> "underline"], [type |-> "strikethrough"],
                                          [type |-> "font_size", attrs |-> [size |-> <<49, 101, 109>>]],
                                          [type |-> "font_color", attrs |-> [color |-> <<35, 48, 48, 102, 102, 49, 48>>]],
                                          [type |-> "highlight", attrs |-> [color |-> <<35, 102>>]],
                                          [type |-> "link", attrs |-> [href |-> <<104>>]] >>],
                            [type |-> "text", marks |-> << [type |-> "strong"] >>],
                            [type |-> "text", text |-> TXT_Y,
                             marks |-> << [type |-> "font_color", attrs |-> [color |-> <<35, 120>>]] >>] >>],
            Para(TXT_Y) >>),
    \* 6: a bullet list of two items, the first holding a nested bullet list
    Note(<< BulletList(<< ListItem(<< Para(TXT_X), BulletList(<< ListItem(<< Para(TXT_Y) >>) >>) >>),
                          ListItem(<< Para(TXT_Y) >>) >>),
            Para(TXT_X) >>),
    \* 7: list containers without a content key, and an empty one, before a list of each kind
    Note(<< [type |-> "bullet_list"], [type |-> "ordered_list"], [type |-> "check_list"],
            BulletList(<< >>),
            BulletList(<< ListItem(<< Para(TXT_X) >>) >>),
            OrderedList(<< ListItem(<< Para(TXT_X) >>) >>),
            CheckList(<< CheckItem(FALSE, << Para(TXT_X) >>) >>) >>),
    \* 8: bullet > ordered > check, then a sibling ordered list
    Note(<< NestedLists(CheckList(<< CheckItem(TRUE, << Para(TXT_X) >>) >>)),
            OrderedList(<< ListItem(<< Para(TXT_X) >>), ListItem(<< Para(TXT_Y) >>) >>),
            OrderedList(<< ListItem(<< Para(TXT_X) >>) >>) >>),
    \* 9: the same with an innermost check list that has no content key
    Note(<< NestedLists([type |-> "check_list"]),
            OrderedList(<< ListItem(<< Para(TXT_X) >>) >>) >>),
    \* 10: check items: no attrs, checked, no attrs, unchecked, without content, checked
    Note(<< CheckList(<< [type |-> "check_list_item", content |-> << Para(TXT_X) >>],
                         CheckItem(TRUE, << Para(TXT_X) >>),
                         [type |-> "check_list_item", content |-> << Para(TXT_Y) >>],
                         CheckItem(FALSE, << Para(TXT_Y) >>),
                         [type |-> "check_list_item"],
                         CheckItem(TRUE, << Para(TXT_Y) >>) >>),
            BulletList(<< [type |-> "list_item"] >>) >>),
    \* 11: a list item outside any list, then ordered items
    Note(<< ListItem(<< Para(TXT_X) >>),
            OrderedList(<< ListItem(<< Para(TXT_X) >>) >>),
            Para(TXT_Y) >>),
    \* 12: the 2 x 2 table whose single first-row cell spans two columns
    Note(<< Table(<< Row(<< Cell(1, 2, << Para(TXT_X) >>) >>),
                     Row(<< PlainCell(<< Para(TXT_X), Para(TXT_Y) >>),
                            PlainCell(<< Para(TXT_Y) >>) >>) >>),
            Para(TXT_X) >>),
    \* 13: a table inside a bullet list item
    Note(<< BulletList(<< ListItem(<< Para(TXT_X),
               Table(<< Row(<< Cell(1, 1, << Para(TXT_Y) >>) >>) >>),
               Para(TXT_Y) >>) >>) >>),
    \* 14: a table nested in a cell, followed by a paragraph of that cell
    Note(<< Table(<< Row(<< Cell(1, 1, << Para(TXT_X),
                                          Table(<< Row(<< Cell(1, 1, << Para(TXT_Y) >>) >>) >>),
                                          Para(TXT_Y) >>) >>) >>),
            Para(TXT_X) >>),
    \* 15: a table that declares fewer cells than its grid has slots
    Note(<< Para(TXT_X),
            Table(<< Row(<< Cell(1, 2, << Para(TXT_X) >>) >>),
                     Row(<< Cell(1, 1, << Para(TXT_Y) >>) >>) >>),
            Para(TXT_Y) >>),
    \* 16: a table of plain cells (no colspan declared anywhere)
    Note(<< Table(<< Row(<< PlainCell(<< Para(TXT_X) >>), PlainCell(<< Para(TXT_Y) >>) >>) >>) >>),
    \* 17: a table that declares more cells than slots, one whose span leaves the grid,
    \*     one without rows
    Note(<< Table(<< Row(<< Cell(1, 1, << Para(TXT_X) >>) >>),
                     Row(<< Cell(1, 1, << Para(TXT_X) >>), Cell(1, 1, << Para(TXT_Y) >>) >>) >>) >>),
    Note(<< Table(<< Row(<< Cell(2, 1, << Para(TXT_X) >>) >>) >>) >>),
    Note(<< Table(<< >>) >>),
    \* 20: a table with overlapping spans, a cell without content
    Note(<< Table(<< Row(<< Cell(1, 1, << Para(TXT_X) >>), Cell(2, 1, << Para(TXT_X) >>) >>),
                     Row(<< Cell(1, 2, << Para(TXT_Y) >>) >>) >>) >>),
    Note(<< Table(<< Row(<< [type |-> "table_cell", attrs |-> [colspan |-> 1]] >>) >>) >>),
    \* 22: images: found, missing, without attrs (in the body and in a cell)
    Note(<< Para(TXT_X), Image(IMG_I), Image(IMG_J),
            Table(<< Row(<< Cell(1, 1, << Para(TXT_X), Image(IMG_I), Image(IMG_J) >>) >>) >>),
            [type |-> "horizontal_rule"] >>),
    Note(<< Para(TXT_X), [type |-> "image"], Para(TXT_Y) >>),
    Note(<< Para(TXT_X), [type |-> "image"] >>),
    \* 25: callouts and code blocks, with and without content
    Note(<< [type |-> "call_out_box", attrs |-> [backgroundColor |-> BG_F, emoji |-> EMOJI],
             content |-> << Para(TXT_X) >>],
            Para(TXT_Y),
            [type |-> "code_block", content |-> << Text(TXT_X) >>],
            Para(TXT_Y) >>),
    Note(<< [type |-> "call_out_box", content |-> << Para(TXT_X) >>] >>),
    Note(<< [type |-> "code_block"], Para(TXT_X),
            [type |-> "call_out_box", attrs |-> [backgroundColor |-> BG_F]], Para(TXT_Y) >>),
    \* 28: a checked item of two paragraphs
    Note(<< CheckList(<< CheckItem(TRUE, << Para(TXT_X), Para(TXT_Y) >>) >>) >>),
    \* 29: a checked item holding a check list with an unchecked item
    Note(<< CheckList(<< CheckItem(TRUE, << Para(TXT_X),
               CheckList(<< CheckItem(FALSE, << Para(TXT_Y) >>) >>) >>) >>) >>),
    \* 30: an unchecked item holding a check list with a checked item without content
    Note(<< CheckList(<< CheckItem(FALSE, <<
               CheckList(<< [type |-> "check_list_item", attrs |-> [checked |-> TRUE]] >>),
               Para(TXT_Y) >>) >>) >>),
    \* 31: a callout nested in a callout, between two paragraphs of the outer one
    Note(<< [type |-> "call_out_box", attrs |-> [backgroundColor |-> BG_F, emoji |-> EMOJI],
             content |-> << Para(TXT_X),
                            [type |-> "call_out_box",
                             attrs |-> [backgroundColor |-> BG_G, emoji |-> EMOJI_B],
                             content |-> << Para(TXT_Y) >>],
                            Para(TXT_Y) >>],
            Para(TXT_X) >>),
    \* 32: an ordered list of three items, the first holding an ordered list of two
    Note(<< OrderedList(<< ListItem(<< Para(TXT_X),
                              OrderedList(<< ListItem(<< Para(TXT_X) >>),
                                             ListItem(<< Para(TXT_Y) >>) >>) >>),
                           ListItem(<< Para(TXT_Y) >>),
                           ListItem(<< Para(TXT_X) >>) >>) >>),
    \* 33: an ordered list of two items, the first holding a bullet list
    Note(<< OrderedList(<< ListItem(<< Para(TXT_X),
                              BulletList(<< ListItem(<< Para(TXT_Y) >>) >>) >>),
                           ListItem(<< Para(TXT_Y) >>) >>) >>),
    \* 34: a bullet list of two items, the first holding an ordered list
    Note(<< BulletList(<< ListItem(<< Para(TXT_X),
                             OrderedList(<< ListItem(<< Para(TXT_Y) >>) >>) >>),
                          ListItem(<< Para(TXT_Y) >>) >>) >>)
>>

----------------------------------------------------------------------------
(* Initial state: the module globals as lines 29-51 set them *)

NoResult == [document |-> NoDocument, output |-> NoneVal, ret |-> "unset", exc |-> NoExc]
NoFirst == [bn |-> 0, result |-> NoResult]

InitGlobals ==
    /\ document = NoDocument
    /\ current_paragraph = NoParagraph
    /\ current_path = <<>>
    /\ use_table_cell_paragraph = FALSE
    /\ current_table_cell = NoCell
    /\ list_type = "None"
    /\ list_depths = [k \in {} |-> 0]
    /\ bullet_list_level = 0
    /\ ordered_list_level = 0
    /\ check_list_level = 0
    /\ in_bullet_list_item = FALSE
    /\ in_ordered_list_item = FALSE
    /\ in_check_list_item = FALSE
    /\ is_check_list_item_checked = FALSE
    /\ in_callout = FALSE
    /\ callout_emoji = NoneVal
    /\ callout_bg_color = NoneVal
    /\ in_code_block = FALSE

InitControl ==
    /\ stack = <<>>
    /\ output = NoneVal
    /\ ret = "unset"
    /\ exc = NoExc
    /\ saves = 0
    /\ nconv = 0
    /\ bn = 0

\* the flags main sets from the command line (lines 95-103), and the disk
InitEnv ==
    /\ DRY_RUN \in BOOLEAN
    /\ UPDATE_LEGACY_BOXNOTES \in BOOLEAN
    /\ output_exists \in BOOLEAN

\* the defaults of lines 26-27, for the functions applied on their own
DefaultEnv ==
    /\ DRY_RUN = FALSE
    /\ UPDATE_LEGACY_BOXNOTES = FALSE
    /\ output_exists = FALSE

Init ==
    /\ InitGlobals
    /\ InitControl
    /\ InitEnv
    /\ first = NoFirst
    /\ declared = "none"
    /\ fn_in = <<>>
    /\ fn_out = <<>>

----------------------------------------------------------------------------
(* convert_boxnote and parse_boxnote_json *)

obs_vars == <<first, declared, fn_in, fn_out>>

\* what one transpile produced: the document built, the shadow text, the outcome
\* what a finished conversion made of its tree: the document built, the shadow text
\* the walk returned, and how the conversion ended short of the write to disk and of
\* the command run for a note of the legacy format
Result ==
    [document |-> [document EXCEPT !.id = 0],
     output |-> IF saves = 1 THEN output ELSE NoneVal,
     ret |-> IF saves = 1 THEN "walked"
             ELSE IF exc.at = "subprocess.call" THEN "False" ELSE ret,
     exc |-> IF saves = 1 THEN NoExc
             ELSE IF exc.at = "subprocess.call"
             THEN [type |-> "OldBoxNoteFormatError", at |-> "parse_boxnote_json"]
             ELSE exc]

\* what subprocess.call(["open", path]) of line 214 does: it returns once the
\* command ran, or raises OSError when the system has no such command
OpenOutcomes == {"returned", "raised"}

\* convert_boxnote(path) for the d-th note, up to the call of parse_contents in
\* parse_boxnote_json (lines 192-237); open_with_retry has returned the JSON.
\* An exception that left an earlier convert_boxnote has ended the process.
convert_boxnote(d) ==
    /\ ~Walking
    /\ nconv < MaxDocs
    /\ ret # "raised"
    /\ LET bn_json == Corpus[d].bn_json
           title == stem(Corpus[d].path[Len(Corpus[d].path)])
       IN
       /\ nconv' = nconv + 1
       /\ bn' = d
       /\ saves' = 0
       /\ first' = IF nconv = 1 THEN [bn |-> bn, result |-> Result] ELSE first
       /\ declared' = "none"
       /\ IF DRY_RUN
          THEN \* lines 201-202: the bare return
               /\ stack' = <<>>
               /\ output' = NoneVal
               /\ ret' = "None"
               /\ exc' = NoExc
               /\ UNCHANGED <<document, current_paragraph, current_path>>
          ELSE
          /\ current_path' = Corpus[d].path
          /\ IF "doc" \in DOMAIN bn_json
             THEN IF "content" \in DOMAIN bn_json.doc
                  THEN LET opened == add_paragraph(Document(nconv + 1)) IN
                       /\ document' = append_run(opened.doc, opened.par,
                                                 [NewRun(title) EXCEPT !.size = <<32>>])
                       /\ current_paragraph' = opened.par
                       /\ stack' = << [fn |-> "parse_boxnote_json"],
                                      ContentsFrame(bn_json.doc.content) >>
                       /\ output' = title \o STR_NL
                       /\ ret' = "running"
                       /\ exc' = NoExc
                  ELSE \* parse_boxnote_json falls off its end: None is returned
                       /\ stack' = <<>>
                       /\ output' = title \o STR_NL
                       /\ ret' = "None"
                       /\ exc' = NoExc
                       /\ UNCHANGED <<document, current_paragraph>>
             ELSE \* OldBoxNoteFormatError, caught at lines 211-217
                  /\ stack' = <<>>
                  /\ output' = title \o STR_NL
                  /\ IF UPDATE_LEGACY_BOXNOTES
                     THEN \E outcome \in OpenOutcomes :
                             IF outcome = "returned"
                             THEN /\ ret' = "False"
                                  /\ exc' = Exc("OldBoxNoteFormatError", "parse_boxnote_json")
                             ELSE \* raised in the except clause: no clause catches it
                                  /\ ret' = "raised"
                                  /\ exc' = Exc("OSError", "subprocess.call")
                     ELSE /\ ret' = "False"
                          /\ exc' = Exc("OldBoxNoteFormatError", "parse_boxnote_json")
                  /\ UNCHANGED <<document, current_paragraph>>
    /\ UNCHANGED <<use_table_cell_paragraph, current_table_cell, list_vars, callout_vars,
                   in_code_block, env_vars, pure_vars>>

\* what the file system makes of document.save: the file is written, the file is
\* missing or empty afterwards, or the write raises (caught at lines 218-221)
SaveOutcomes == {"written", "empty", "raised"}

\* parse_boxnote_json after parse_contents returned: document.save and the check
\* of the written file (lines 238-244)
parse_boxnote_json_save ==
    /\ Returned("parse_boxnote_json")
    /\ stack' = <<>>
    /\ saves' = saves + 1
    /\ \E outcome \in SaveOutcomes :
          /\ ret' = IF outcome = "written" THEN "True" ELSE "False"
          /\ exc' = IF outcome = "raised" THEN Exc("OSError", "document.save") ELSE exc
          /\ IF outcome = "written" THEN output_exists' = TRUE
             ELSE IF outcome = "empty" THEN output_exists' \in BOOLEAN
             ELSE output_exists' = output_exists
    /\ UNCHANGED <<globals, output, nconv, bn, DRY_RUN, UPDATE_LEGACY_BOXNOTES, obs_vars>>

----------------------------------------------------------------------------
(* parse_contents / parse_content_type: nodes no handler takes *)

HandledTypes == {"heading", "paragraph", "text", "bullet_list", "ordered_list",
                 "check_list", "list_item", "check_list_item", "image", "table",
                 "horizontal_rule", "call_out_box", "code_block", "blockquote"}

\* a content_obj without type (line 251) or of a type parse_content_type does not
\* know (line 286): the output passes through
Unhandled(content_obj) ==
    IF "type" \in DOMAIN content_obj THEN content_obj.type \notin HandledTypes ELSE TRUE

\* the skip that leaves a line break in the shadow text
parse_content_type_skip_newline ==
    /\ AtNode
    /\ Unhandled(Node)
    /\ Return(output \o STR_NL)
    /\ UNCHANGED <<globals, env_vars, obs_vars>>

parse_content_type_skip ==
    /\ AtNode
    /\ Unhandled(Node)
    /\ Return(output)
    /\ UNCHANGED <<globals, env_vars, obs_vars>>

----------------------------------------------------------------------------
(* Headings, paragraphs, text, blockquotes *)

\* lines 301-302: every run of the paragraph gets the heading size
set_runs_size(d, par, size) ==
    IF Live(d, par)
    THEN [d EXCEPT !.paras[par.idx].runs =
             [i \in 1..Len(@) |-> IF IsDirectRun(@[i]) THEN [@[i] EXCEPT !.size = size] ELSE @[i]]]
    ELSE d

parse_heading_type ==
    /\ At("heading")
    /\ LET opened == add_paragraph(document) IN
       /\ document' = opened.doc
       /\ current_paragraph' = opened.par
    /\ IF "content" \in DOMAIN Node
       THEN Call([fn |-> "parse_heading_type", heading_size |-> HeadingSize(Node)],
                 Node.content, output)
       ELSE IF CanConcat(output) THEN Return(output \o STR_NL)
            ELSE Raise(Exc("TypeError", "parse_heading_type"))
    /\ UNCHANGED <<current_path, use_table_cell_paragraph, current_table_cell, list_vars,
                   callout_vars, in_code_block, env_vars, obs_vars>>

parse_heading_type_ret ==
    /\ Returned("parse_heading_type")
    /\ document' = set_runs_size(document, current_paragraph, Caller.heading_size)
    /\ IF CanConcat(output) THEN ReturnFrom(output \o STR_NL)
       ELSE Raise(Exc("TypeError", "parse_heading_type"))
    /\ UNCHANGED <<current_paragraph, current_path, use_table_cell_paragraph,
                   current_table_cell, list_vars, callout_vars, in_code_block, env_vars, obs_vars>>

append_runs(d, par, texts) ==
    IF Live(d, par)
    THEN [d EXCEPT !.paras[par.idx].runs = @ \o [i \in 1..Len(texts) |-> NewRun(texts[i])]]
    ELSE d

\* the runs of `for _ in range(level - 1): add_run(INDENT)`
IndentRuns(level) == [i \in 1..(level - 1) |-> INDENT]

set_alignment(d, par, alignment) ==
    IF Live(d, par) THEN [d EXCEPT !.paras[par.idx].alignment = alignment] ELSE d

\* lines 311-320: the paragraph the node's content goes to
OpenParagraph ==
    IF use_table_cell_paragraph
    THEN IF current_table_cell = NoCell
         THEN [doc |-> document, par |-> current_paragraph, use |-> TRUE,
               err |-> Exc("AttributeError", "parse_paragraph_type")]
         ELSE LET p0 == cell_first_paragraph(document, current_table_cell) IN
              [doc |-> p0.doc, par |-> p0.par, use |-> FALSE, err |-> NoExc]
    ELSE LET p1 == IF current_table_cell = NoCell THEN add_paragraph(document)
                   ELSE cell_add_paragraph(document, current_table_cell)
         IN  [doc |-> p1.doc, par |-> p1.par, use |-> FALSE, err |-> NoExc]

\* lines 322-348: the marker runs of a paragraph in a list item, or the callout table
MarkParagraph(o) ==
    IF in_bullet_list_item
    THEN [o EXCEPT !.doc = append_runs(o.doc, o.par,
                                IndentRuns(bullet_list_level) \o <<STR_BULLET>>)]
    ELSE IF in_ordered_list_item
    THEN LET indented == append_runs(o.doc, o.par, IndentRuns(ordered_list_level)) IN
         IF ordered_list_level \notin DOMAIN list_depths
         THEN [o EXCEPT !.doc = indented, !.err = Exc("KeyError", "parse_paragraph_type")]
         ELSE IF get_ordered_list_char_raises(ordered_list_level, list_depths[ordered_list_level])
         THEN [o EXCEPT !.doc = indented, !.err = Exc("OutOfRangeError", "get_ordered_list_char")]
         ELSE [o EXCEPT !.doc = add_run(indented, o.par,
                  get_ordered_list_char(ordered_list_level, list_depths[ordered_list_level])
                  \o STR_SP)]
    ELSE IF in_check_list_item
    THEN [o EXCEPT !.doc = append_runs(o.doc, o.par,
              IndentRuns(check_list_level)
              \o << IF is_check_list_item_checked THEN STR_CHECKED ELSE STR_UNCHECKED >>)]
    ELSE IF in_callout
    THEN LET callout_table == add_table(o.doc, 1, 1, "None") IN
         IF callout_bg_color = NoneVal
         THEN [o EXCEPT !.doc = callout_table.doc,
                        !.err = Exc("TypeError", "set_cell_background_color")]
         ELSE LET shaded == set_cell_background_color(callout_table.doc, callout_table.table,
                                                      callout_bg_color)
                  added == cell_add_paragraph(shaded, table_cell(shaded, callout_table.table, 0, 0))
              IN  IF callout_emoji = NoneVal
                  THEN [o EXCEPT !.doc = added.doc, !.par = added.par,
                                 !.err = Exc("TypeError", "parse_paragraph_type")]
                  ELSE [o EXCEPT !.doc = add_run(added.doc, added.par,
                                                 STR_SP \o callout_emoji \o STR_PAD),
                                 !.par = added.par]
    ELSE o

\* lines 311-365
StartParagraph(content_obj) ==
    LET opened == OpenParagraph IN
    IF opened.err # NoExc THEN opened
    ELSE LET marked == MarkParagraph(opened) IN
         IF marked.err # NoExc THEN marked
         ELSE [marked EXCEPT !.doc = set_alignment(marked.doc, marked.par,
                                                   ParagraphAlignment(content_obj))]

parse_paragraph_type ==
    /\ At("paragraph")
    /\ LET started == StartParagraph(Node) IN
       /\ document' = started.doc
       /\ current_paragraph' = started.par
       /\ use_table_cell_paragraph' = started.use
       /\ IF started.err # NoExc THEN Raise(started.err)
          ELSE IF "content" \in DOMAIN Node
          THEN Call([fn |-> "parse_paragraph_type"], Node.content, output)
          ELSE IF CanConcat(output) THEN Return(output \o STR_NL)
               ELSE Raise(Exc("TypeError", "parse_paragraph_type"))
    /\ UNCHANGED <<current_path, current_table_cell, list_vars, callout_vars,
                   in_code_block, env_vars, obs_vars>>

parse_paragraph_type_ret ==
    /\ Returned("parse_paragraph_type")
    /\ IF CanConcat(output) THEN ReturnFrom(output \o STR_NL)
       ELSE Raise(Exc("TypeError", "parse_paragraph_type"))
    /\ UNCHANGED <<globals, env_vars, obs_vars>>

\* the first font_color mark whose colour get_color_from_hex rejects raises
BadFontColor(content_obj) ==
    /\ "marks" \in DOMAIN content_obj
    /\ \E i \in 1..Len(content_obj.marks) :
          /\ IsAttrMark(content_obj.marks[i], "font_color", "color")
          /\ get_color_from_hex(content_obj.marks[i].attrs.color).err # NoExc

\* lines 425-461: the run of a text node, with the fields the marks give it
TextRun(content_obj) ==
    LET url == LastAttr(content_obj, "link", "href")
        is_hyperlink == url # NoneVal
        color_hex == LastAttr(content_obj, "font_color", "color")
        font_color == IF color_hex = NoneVal THEN NoneVal ELSE get_color_from_hex(color_hex).rgb
        highlight_hex == LastAttr(content_obj, "highlight", "color")
    IN  [NewRun(content_obj.text) EXCEPT
            !.hyperlink = url,
            !.bold = HasMark(content_obj, "strong"),
            !.italic = HasMark(content_obj, "em"),
            !.underline = HasMark(content_obj, "underline") \/ is_hyperlink,
            !.strike = HasMark(content_obj, "strikethrough"),
            !.color = IF is_hyperlink THEN <<26, 116, 186>> ELSE font_color,
            !.highlight = IF highlight_hex = NoneVal THEN NoneVal
                          ELSE highlight_color(highlight_hex),
            \* get_pt_from_em's arithmetic is not modelled: the size is kept as given
            !.size = LastAttr(content_obj, "font_size", "size"),
            !.name = IF in_code_block THEN "Courier" ELSE "Helvetica",
            !.shd = IF in_callout THEN callout_bg_color ELSE NoneVal]

parse_text_type ==
    /\ At("text")
    /\ IF BadFontColor(Node)
       THEN /\ Raise(Exc("ValueError", "get_color_from_hex"))
            /\ UNCHANGED document
       ELSE IF "text" \notin DOMAIN Node
       THEN /\ Return(output)
            /\ UNCHANGED document
       ELSE /\ document' = append_run(document, current_paragraph, TextRun(Node))
            /\ IF in_callout /\ callout_bg_color = NoneVal
               THEN Raise(Exc("TypeError", "set_run_background_color"))
               ELSE IF CanConcat(output) THEN Return(output \o Node.text)
                    ELSE Raise(Exc("TypeError", "parse_text_type"))
    /\ UNCHANGED <<current_paragraph, current_path, use_table_cell_paragraph,
                   current_table_cell, list_vars, callout_vars, in_code_block, env_vars, obs_vars>>

\* lines 802-808; its assignment to in_code_block binds a local name
parse_blockquote ==
    /\ At("blockquote")
    /\ IF "content" \in DOMAIN Node
       THEN Call([fn |-> "parse_blockquote"], Node.content, output)
       ELSE Return(output)
    /\ UNCHANGED <<globals, env_vars, obs_vars>>

parse_blockquote_ret ==
    /\ Returned("parse_blockquote")
    /\ IF CanConcat(output) THEN ReturnFrom(output \o STR_NL)
       ELSE Raise(Exc("TypeError", "parse_blockquote"))
    /\ UNCHANGED <<globals, env_vars, obs_vars>>

----------------------------------------------------------------------------
(* List containers *)

parse_bullet_list_type ==
    /\ At("bullet_list")
    /\ list_type' = "bullet"
    /\ bullet_list_level' = bullet_list_level + 1
    /\ IF "content" \in DOMAIN Node
       THEN Call([fn |-> "parse_bullet_list_type", entry_level |-> bullet_list_level],
                 Node.content, output)
       ELSE Return(output)
    /\ UNCHANGED <<cursor_vars, current_path, list_depths, ordered_list_level,
                   check_list_level, item_vars, is_check_list_item_checked, callout_vars,
                   in_code_block, env_vars, obs_vars>>

parse_bullet_list_type_ret ==
    /\ Returned("parse_bullet_list_type")
    /\ bullet_list_level' = bullet_list_level - 1
    /\ ReturnFrom(output)
    /\ UNCHANGED <<cursor_vars, current_path, list_type, list_depths, ordered_list_level,
                   check_list_level, item_vars, is_check_list_item_checked, callout_vars,
                   in_code_block, env_vars, obs_vars>>

\* list_depths[level] = v
SetDepth(depths, level, v) ==
    [k \in (DOMAIN depths) \cup {level} |-> IF k = level THEN v ELSE depths[k]]

parse_ordered_list_type ==
    /\ At("ordered_list")
    /\ list_type' = "ordered"
    /\ ordered_list_level' = ordered_list_level + 1
    /\ list_depths' = SetDepth(list_depths, ordered_list_level + 1, 0)
    /\ IF "content" \in DOMAIN Node
       THEN Call([fn |-> "parse_ordered_list_type", entry_level |-> ordered_list_level],
                 Node.content, output)
       ELSE Return(output)
    /\ UNCHANGED <<cursor_vars, current_path, bullet_list_level, check_list_level, item_vars,
                   is_check_list_item_checked, callout_vars, in_code_block, env_vars, obs_vars>>

parse_ordered_list_type_ret ==
    /\ Returned("parse_ordered_list_type")
    /\ ordered_list_level' = ordered_list_level - 1
    /\ ReturnFrom(output)
    /\ UNCHANGED <<cursor_vars, current_path, list_type, list_depths, bullet_list_level,
                   check_list_level, item_vars, is_check_list_item_checked, callout_vars,
                   in_code_block, env_vars, obs_vars>>

parse_check_list_type ==
    /\ At("check_list")
    /\ list_type' = "check"
    /\ check_list_level' = check_list_level + 1
    /\ IF "content" \in DOMAIN Node
       THEN Call([fn |-> "parse_check_list_type", entry_level |-> check_list_level],
                 Node.content, output)
       ELSE Return(output)
    /\ UNCHANGED <<cursor_vars, current_path, list_depths, bullet_list_level,
                   ordered_list_level, item_vars, is_check_list_item_checked, callout_vars,
                   in_code_block, env_vars, obs_vars>>

parse_check_list_type_ret ==
    /\ Returned("parse_check_list_type")
    /\ check_list_level' = check_list_level - 1
    /\ ReturnFrom(output)
    /\ UNCHANGED <<cursor_vars, current_path, list_type, list_depths, bullet_list_level,
                   ordered_list_level, item_vars, is_check_list_item_checked, callout_vars,
                   in_code_block, env_vars, obs_vars>>

----------------------------------------------------------------------------
(* List items *)

\* lines 519-523
CheckedAfter(content_obj) ==
    IF "attrs" \in DOMAIN content_obj /\ "checked" \in DOMAIN content_obj.attrs
    THEN content_obj.attrs.checked
    ELSE is_check_list_item_checked

\* The frame notes what the item was entered with (checked, entry_paras: the state
\* it is rendered with and the paragraphs the document had), which the code does not
\* keep: it is there to be compared with on return.
parse_check_list_item_type ==
    /\ At("check_list_item")
    /\ is_check_list_item_checked' = CheckedAfter(Node)
    /\ declared' = IF "attrs" \in DOMAIN Node /\ "checked" \in DOMAIN Node.attrs
                   THEN (IF Node.attrs.checked THEN "checked" ELSE "unchecked")
                   ELSE declared
    /\ IF "content" \in DOMAIN Node
       THEN IF CanConcat(output)
            THEN /\ in_check_list_item' = TRUE
                 /\ Call([fn |-> "parse_check_list_item_type", checked |-> CheckedAfter(Node),
                          entry_paras |-> Len(document.paras)], Node.content,
                         output \o Repeat(STR_PAD, check_list_level)
                         \o (IF CheckedAfter(Node) THEN STR_CHECKED ELSE STR_UNCHECKED))
            ELSE /\ Raise(Exc("TypeError", "parse_check_list_item_type"))
                 /\ UNCHANGED in_check_list_item
       ELSE /\ Return(output)
            /\ UNCHANGED in_check_list_item
    /\ UNCHANGED <<cursor_vars, current_path, list_type, list_depths, level_vars,
                   in_bullet_list_item, in_ordered_list_item, callout_vars, in_code_block,
                   first, env_vars, pure_vars>>

\* lines 533-539: strike every run of the paragraph after the first run that
\* holds the checked-box glyph, when the paragraph has more than one run
StrikeAfterCheck(d, par) ==
    IF ~Live(d, par) THEN d
    ELSE LET runs == d.paras[par.idx].runs
             direct == {i \in 1..Len(runs) : IsDirectRun(runs[i])}
             hits == {i \in direct : Contains(runs[i].text, 9745)}
         IN  IF Cardinality(direct) > 1 /\ hits # {}
             THEN LET found == CHOOSE i \in hits : \A j \in hits : i <= j IN
                  [d EXCEPT !.paras[par.idx].runs =
                      [i \in 1..Len(runs) |->
                          IF i \in direct /\ i > found THEN [runs[i] EXCEPT !.strike = TRUE]
                          ELSE runs[i]]]
             ELSE d

parse_check_list_item_type_ret ==
    /\ Returned("parse_check_list_item_type")
    /\ in_check_list_item' = FALSE
    /\ document' = IF is_check_list_item_checked
                   THEN StrikeAfterCheck(document, current_paragraph)
                   ELSE document
    /\ ReturnFrom(output)
    /\ UNCHANGED <<current_paragraph, use_table_cell_paragraph, current_table_cell,
                   current_path, list_type, list_depths, level_vars, in_bullet_list_item,
                   in_ordered_list_item, is_check_list_item_checked, callout_vars,
                   in_code_block, env_vars, obs_vars>>

\* line 547-548: the depths after the item's increment
DepthsAfterItem ==
    IF list_type = "ordered"
    THEN [list_depths EXCEPT ![ordered_list_level] = @ + 1]
    ELSE list_depths

parse_list_item_type ==
    /\ At("list_item")
    /\ IF list_type = "ordered" /\ ordered_list_level \notin DOMAIN list_depths
       THEN /\ Raise(Exc("KeyError", "parse_list_item_type"))
            /\ UNCHANGED <<list_depths, in_bullet_list_item, in_ordered_list_item>>
       ELSE /\ list_depths' = DepthsAfterItem
            /\ IF "content" \notin DOMAIN Node
               THEN /\ Return(output)
                    /\ UNCHANGED <<in_bullet_list_item, in_ordered_list_item>>
               ELSE IF list_type = "bullet"
               THEN IF CanConcat(output)
                    THEN /\ in_bullet_list_item' = TRUE
                         /\ UNCHANGED in_ordered_list_item
                         /\ Call([fn |-> "parse_list_item_type"], Node.content,
                                 output \o Repeat(STR_PAD, bullet_list_level) \o STR_DASH)
                    ELSE /\ Raise(Exc("TypeError", "parse_list_item_type"))
                         /\ UNCHANGED <<in_bullet_list_item, in_ordered_list_item>>
               ELSE IF list_type = "ordered"
               THEN IF get_ordered_list_char_raises(ordered_list_level,
                                                    DepthsAfterItem[ordered_list_level])
                    THEN /\ Raise(Exc("OutOfRangeError", "get_ordered_list_char"))
                         /\ UNCHANGED <<in_bullet_list_item, in_ordered_list_item>>
                    ELSE IF CanConcat(output)
                    THEN /\ in_ordered_list_item' = TRUE
                         /\ UNCHANGED in_bullet_list_item
                         /\ Call([fn |-> "parse_list_item_type"], Node.content,
                                 output \o Repeat(STR_PAD, ordered_list_level)
                                 \o get_ordered_list_char(ordered_list_level,
                                                          DepthsAfterItem[ordered_list_level])
                                 \o STR_SP)
                    ELSE /\ Raise(Exc("TypeError", "parse_list_item_type"))
                         /\ UNCHANGED <<in_bullet_list_item, in_ordered_list_item>>
               ELSE /\ Call([fn |-> "parse_list_item_type"], Node.content, output)
                    /\ UNCHANGED <<in_bullet_list_item, in_ordered_list_item>>
    /\ UNCHANGED <<cursor_vars, current_path, list_type, level_vars, in_check_list_item,
                   is_check_list_item_checked, callout_vars, in_code_block, env_vars, obs_vars>>

parse_list_item_type_ret ==
    /\ Returned("parse_list_item_type")
    /\ in_bullet_list_item' = FALSE
    /\ in_ordered_list_item' = FALSE
    /\ ReturnFrom(output)
    /\ UNCHANGED <<cursor_vars, current_path, list_type, list_depths, level_vars,
                   in_check_list_item, is_check_list_item_checked, callout_vars,
                   in_code_block, env_vars, obs_vars>>

----------------------------------------------------------------------------
(* Images and horizontal rules *)

PictureRun(image_file_path, width) ==
    [NewRun(STR_EMPTY) EXCEPT !.picture = image_file_path, !.width = width]

\* document.add_picture(path, width): a new body paragraph holding the picture
add_picture(d, image_file_path, width) ==
    LET added == add_paragraph(d) IN
    append_run(added.doc, added.par, PictureRun(image_file_path, width))

parse_image_type ==
    /\ At("image")
    /\ IF "attrs" \in DOMAIN Node /\ "fileName" \in DOMAIN Node.attrs
       THEN LET image_file_name == Node.attrs.fileName
                image_file_path == get_image_path(image_file_name)
            IN  /\ document' =
                      IF image_file_path # NoPath
                      THEN IF current_table_cell = NoCell
                           THEN add_picture(document, image_file_path, in_to_emu(6))
                           ELSE append_run(document, current_paragraph,
                                           PictureRun(image_file_path, in_to_emu(1)))
                      ELSE add_run(document, current_paragraph, STR_MISSING \o image_file_name)
                /\ IF CanConcat(output)
                   THEN Return(output \o STR_IMAGE \o image_file_name)
                   ELSE Raise(Exc("TypeError", "parse_image_type"))
       ELSE \* no return statement is reached: the handler returns None
            /\ Return(NoneVal)
            /\ UNCHANGED document
    /\ UNCHANGED <<current_paragraph, use_table_cell_paragraph, current_table_cell,
                   current_path, list_vars, callout_vars, in_code_block, env_vars, obs_vars>>

\* insert_horizontal_rule (lines 744-762): the paragraph gets a bottom border
insert_horizontal_rule(d, par) ==
    IF Live(d, par) THEN [d EXCEPT !.paras[par.idx].rule = TRUE] ELSE d

parse_horizontal_rule_type ==
    /\ At("horizontal_rule")
    /\ LET target == IF current_paragraph = NoParagraph THEN add_paragraph(document)
                     ELSE [doc |-> document, par |-> current_paragraph]
       IN  /\ document' = insert_horizontal_rule(target.doc, target.par)
           /\ current_paragraph' = target.par
    /\ IF CanConcat(output) THEN Return(output \o STR_RULE)
       ELSE Raise(Exc("TypeError", "parse_horizontal_rule_type"))
    /\ UNCHANGED <<use_table_cell_paragraph, current_table_cell, current_path, list_vars,
                   callout_vars, in_code_block, env_vars, obs_vars>>

----------------------------------------------------------------------------
(* Callouts and code blocks *)

\* lines 769-774
\* the formatting context a handler finds: list, callout and code-block state
Context ==
    [list_type |-> list_type, bullet_list_level |-> bullet_list_level,
     ordered_list_level |-> ordered_list_level, check_list_level |-> check_list_level,
     in_bullet_list_item |-> in_bullet_list_item,
     in_ordered_list_item |-> in_ordered_list_item,
     in_check_list_item |-> in_check_list_item,
     in_callout |-> in_callout, callout_emoji |-> callout_emoji,
     callout_bg_color |-> callout_bg_color, in_code_block |-> in_code_block]

CalloutEmoji(content_obj) ==
    IF "attrs" \in DOMAIN content_obj /\ "emoji" \in DOMAIN content_obj.attrs
    THEN content_obj.attrs.emoji ELSE STR_EMPTY
CalloutBgColor(content_obj) ==
    IF "attrs" \in DOMAIN content_obj /\ "backgroundColor" \in DOMAIN content_obj.attrs
    THEN SubSeq(content_obj.attrs.backgroundColor, 2, Len(content_obj.attrs.backgroundColor))
    ELSE callout_bg_color

\* (the frame notes the context the callout was entered in, as a table's frame does)
parse_call_out_box ==
    /\ At("call_out_box")
    /\ in_callout' = TRUE
    /\ callout_emoji' = CalloutEmoji(Node)
    /\ callout_bg_color' = CalloutBgColor(Node)
    /\ IF "content" \in DOMAIN Node
       THEN IF CanConcat(output)
            THEN Call([fn |-> "parse_call_out_box", entry_context |-> Context], Node.content,
                      output \o CalloutEmoji(Node) \o STR_SP)
            ELSE Raise(Exc("TypeError", "parse_call_out_box"))
       ELSE Return(output)
    /\ UNCHANGED <<cursor_vars, current_path, list_vars, in_code_block, env_vars, obs_vars>>

parse_call_out_box_ret ==
    /\ Returned("parse_call_out_box")
    /\ IF CanConcat(output)
       THEN /\ in_callout' = FALSE
            /\ ReturnFrom(output \o STR_NL)
       ELSE /\ Raise(Exc("TypeError", "parse_call_out_box"))
            /\ UNCHANGED in_callout
    /\ UNCHANGED <<cursor_vars, current_path, list_vars, callout_emoji, callout_bg_color,
                   in_code_block, env_vars, obs_vars>>

parse_code_block ==
    /\ At("code_block")
    /\ in_code_block' = TRUE
    /\ LET table == add_table(document, 1, 1, "None")
           shaded == set_cell_background_color(table.doc, table.table, STR_CODE_BG)
           opened == cell_first_paragraph(shaded, table_cell(shaded, table.table, 0, 0))
       IN  /\ document' = opened.doc
           /\ current_paragraph' = opened.par
    /\ IF "content" \in DOMAIN Node
       THEN Call([fn |-> "parse_code_block"], Node.content, output)
       ELSE Return(output)
    /\ UNCHANGED <<use_table_cell_paragraph, current_table_cell, current_path, list_vars,
                   callout_vars, env_vars, obs_vars>>

parse_code_block_ret ==
    /\ Returned("parse_code_block")
    /\ IF CanConcat(output)
       THEN /\ in_code_block' = FALSE
            /\ ReturnFrom(output \o STR_NL)
       ELSE /\ Raise(Exc("TypeError", "parse_code_block"))
            /\ UNCHANGED in_code_block
    /\ UNCHANGED <<cursor_vars, current_path, list_vars, callout_vars, env_vars, obs_vars>>

----------------------------------------------------------------------------
(* Tables *)

\* lines 598-609: dimensions, declared cells and merges, or the first exception
ResolveTable(content_obj) ==
    LET dims == get_table_dimensions(content_obj) IN
    IF dims.err # NoExc
    THEN [err |-> dims.err, r |-> 0, c |-> 0, table_cell_objs |-> <<>>,
          cell_merges |-> <<>>, placed |-> <<>>]
    ELSE LET cells == get_table_cell_objs(content_obj) IN
         IF cells.err # NoExc
         THEN [err |-> cells.err, r |-> dims.num_rows, c |-> dims.num_cols,
               table_cell_objs |-> <<>>, cell_merges |-> <<>>, placed |-> <<>>]
         ELSE LET scan == get_table_cell_merges(
                              get_cell_tracking_table(dims.num_rows, dims.num_cols), cells.objs)
              IN  [err |-> scan.err, r |-> dims.num_rows, c |-> dims.num_cols,
                   table_cell_objs |-> cells.objs, cell_merges |-> scan.cell_merges,
                   placed |-> scan.placed]

\* parse_table_type up to its loop over the cells (lines 594-615).  Merging
\* rectangles that overlap is left to python-docx, which may reject the span.
\* The frame also notes the context the table was entered in (entry_context),
\* which the code does not keep: it is there to be compared with on return.
parse_table_type ==
    /\ At("table")
    /\ LET g == ResolveTable(Node) IN
       IF g.err # NoExc
       THEN /\ Raise(g.err)
            /\ UNCHANGED document
       ELSE LET added == add_table(document, g.r, g.c, "Table Grid")
                frame == [fn |-> "parse_table_type", table |-> added.table,
                          table_cell_objs |-> g.table_cell_objs, placed |-> g.placed,
                          k |-> 1, output |-> output, r |-> g.r, c |-> g.c,
                          entry_context |-> Context]
            IN  \E rejected \in IF MergesOverlap(g.cell_merges) THEN BOOLEAN ELSE {FALSE} :
                   IF rejected
                   THEN /\ document' = added.doc
                        /\ Raise(Exc("InvalidSpanError", "merge_table_cells"))
                   ELSE /\ document' = merge_table_cells(added.doc, added.table, g.cell_merges)
                        /\ stack' = Append(Advanced, frame)
                        /\ UNCHANGED <<output, ret, exc, saves, nconv, bn>>
    /\ UNCHANGED <<current_paragraph, use_table_cell_paragraph, current_table_cell,
                   current_path, list_vars, callout_vars, in_code_block, env_vars, obs_vars>>

\* the loop of lines 618-619 is about to call parse_table_cell_type
AtTableCell == Walking /\ Top.fn = "parse_table_type" /\ Top.k <= Len(Top.table_cell_objs)

\* parse_table_cell_type up to its call of parse_contents (lines 628-638); a
\* declaration the scan gave no origin has no row_idx
parse_table_cell_type ==
    /\ AtTableCell
    /\ LET table_cell_obj == Top.table_cell_objs[Top.k] IN
       IF Top.k > Len(Top.placed)
       THEN /\ Raise(Exc("KeyError", "parse_table_cell_type"))
            /\ UNCHANGED <<current_table_cell, use_table_cell_paragraph>>
       ELSE /\ current_table_cell' = table_cell(document, Top.table,
                                                Top.placed[Top.k].row_idx,
                                                Top.placed[Top.k].col_idx)
            /\ use_table_cell_paragraph' = TRUE
            /\ IF "content" \in DOMAIN table_cell_obj
               THEN /\ stack' = Append([stack EXCEPT ![Len(stack)].k = @ + 1],
                                       ContentsFrame(table_cell_obj.content))
                    /\ output' = STR_EMPTY
                    /\ UNCHANGED <<ret, exc, saves, nconv, bn>>
               ELSE Raise(Exc("KeyError", "parse_table_cell_type"))
    /\ UNCHANGED <<document, current_paragraph, current_path, list_vars, callout_vars,
                   in_code_block, env_vars, obs_vars>>

\* parse_table_cell_type returns; what its parse_contents returned is dropped
parse_table_cell_type_ret ==
    /\ Returned("parse_table_type")
    /\ stack' = SubSeq(stack, 1, Len(stack) - 1)
    /\ output' = Caller.output
    /\ UNCHANGED <<ret, exc, saves, nconv, bn>>
    /\ UNCHANGED <<globals, env_vars, obs_vars>>

\* parse_table_type after its loop (lines 621-624)
parse_table_type_ret ==
    /\ Walking
    /\ Top.fn = "parse_table_type"
    /\ Top.k > Len(Top.table_cell_objs)
    /\ current_table_cell' = NoCell
    /\ use_table_cell_paragraph' = FALSE
    /\ IF CanConcat(Top.output)
       THEN /\ stack' = SubSeq(stack, 1, Len(stack) - 1)
            /\ output' = Top.output \o STR_TABLE \o str(Top.r) \o STR_X \o str(Top.c) \o STR_GT
            /\ UNCHANGED <<ret, exc, saves, nconv, bn>>
       ELSE Raise(Exc("TypeError", "parse_table_type"))
    /\ UNCHANGED <<document, current_paragraph, current_path, list_vars, callout_vars,
                   in_code_block, env_vars, obs_vars>>

----------------------------------------------------------------------------
(* The process: conversions one after the other, each a walk *)

Next ==
    \/ \E d \in 1..Len(Corpus) : convert_boxnote(d)
    \/ parse_boxnote_json_save
    \/ parse_content_type_skip
    \/ parse_heading_type
    \/ parse_heading_type_ret
    \/ parse_paragraph_type
    \/ parse_paragraph_type_ret
    \/ parse_text_type
    \/ parse_bullet_list_type
    \/ parse_bullet_list_type_ret
    \/ parse_ordered_list_type
    \/ parse_ordered_list_type_ret
    \/ parse_check_list_type
    \/ parse_check_list_type_ret
    \/ parse_list_item_type
    \/ parse_list_item_type_ret
    \/ parse_check_list_item_type
    \/ parse_check_list_item_type_ret
    \/ parse_image_type
    \/ parse_table_type
    \/ parse_table_cell_type
    \/ parse_table_cell_type_ret
    \/ parse_table_type_ret
    \/ parse_horizontal_rule_type
    \/ parse_call_out_box
    \/ parse_call_out_box_ret
    \/ parse_code_block
    \/ parse_code_block_ret
    \/ parse_blockquote
    \/ parse_blockquote_ret

Spec == Init /\ [][Next]_vars

----------------------------------------------------------------------------
(* Properties of the conversion *)

\* an exception of the walk (anything but the legacy-format signal) ended the conversion
WalkRaised ==
    /\ exc.type \notin {"None", "OldBoxNoteFormatError"}
    /\ exc.at \notin {"document.save", "subprocess.call"}

\* C1: for every document the output is saved at most once, and only when the walk
\* of the whole content tree has returned; when a handler raised during the walk,
\* save was not called for the document and convert_boxnote returned False.
C1_SaveOnlyAfterWalk ==
    /\ saves <= 1
    /\ saves = 1 => (~Walking /\ ~WalkRaised /\ ret \in {"True", "False"})
    /\ WalkRaised => (~Walking /\ saves = 0 /\ ret = "False")
    /\ Walking => (saves = 0 /\ ret = "running")

\* a second conversion raised in its walk after a first one had been saved
C1_Witness ==
    /\ nconv = 2
    /\ first.result.ret = "walked"
    /\ WalkRaised
    /\ Len(document.paras) > 1
    /\ saves = 0

\* C2: transpiling a tree again in the same process gives the same paragraphs, runs,
\* tables and shadow text as the first conversion of the process gave for that tree.
C2_SameTreeSameResult ==
    (~Walking /\ nconv >= 2 /\ first.bn = bn) => Result = first.result

\* C3: when the handler of a list container returns, the nesting counter of its kind
\* is what it was before the handler was entered; also for a list node without content
\* key, whose handler returns in the step that entered it.
C3_Step ==
    /\ (At("bullet_list") /\ stack' = Advanced) => bullet_list_level' = bullet_list_level
    /\ (At("ordered_list") /\ stack' = Advanced) => ordered_list_level' = ordered_list_level
    /\ (At("check_list") /\ stack' = Advanced) => check_list_level' = check_list_level
    /\ (Returned("parse_bullet_list_type") /\ stack' = SubSeq(stack, 1, Len(stack) - 2))
          => bullet_list_level' = Caller.entry_level
    /\ (Returned("parse_ordered_list_type") /\ stack' = SubSeq(stack, 1, Len(stack) - 2))
          => ordered_list_level' = Caller.entry_level
    /\ (Returned("parse_check_list_type") /\ stack' = SubSeq(stack, 1, Len(stack) - 2))
          => check_list_level' = Caller.entry_level
C3_ScopedCounters == [][C3_Step]_vars

\* the list containers whose handlers are on the stack, outermost first
IsListFrame(f) ==
    f.fn \in {"parse_bullet_list_type", "parse_ordered_list_type", "parse_check_list_type"}
ListFrames == SelectSeq(stack, IsListFrame)
\* inside a check list in an ordered list in a bullet list, and in no other list
InNestOfThree ==
    /\ Len(ListFrames) = 3
    /\ ListFrames[1].fn = "parse_bullet_list_type"
    /\ ListFrames[2].fn = "parse_ordered_list_type"
    /\ ListFrames[3].fn = "parse_check_list_type"
\* the walk is at the first node of an ordered list, a list item
AtFirstItemOfOrderedList ==
    /\ At("list_item")
    /\ Top.i = 1
    /\ Caller.fn = "parse_ordered_list_type"

\* C4: a bullet list holding an ordered list holding a check list: inside the check
\* list each of the three counters is 1; each container's handler restores its counter
\* when it returns; and the first item of an ordered list is numbered 1.
C4_Step ==
    /\ InNestOfThree' => /\ bullet_list_level' = 1
                         /\ ordered_list_level' = 1
                         /\ check_list_level' = 1
    /\ C3_Step
    /\ (AtFirstItemOfOrderedList /\ Walking')
          => (/\ ordered_list_level' \in DOMAIN list_depths'
              /\ list_depths'[ordered_list_level'] = 1)
C4_IndependentCounters == [][C4_Step]_vars

\* the walk is at the first node of a table cell's content
AtCellEntry ==
    /\ AtNode
    /\ Top.i = 1
    /\ Caller.fn = "parse_table_type"
\* no list, callout or code block is active
NoneActive ==
    /\ list_type = "None"
    /\ bullet_list_level = 0 /\ ordered_list_level = 0 /\ check_list_level = 0
    /\ ~in_bullet_list_item /\ ~in_ordered_list_item /\ ~in_check_list_item
    /\ ~in_callout
    /\ ~in_code_block

\* C5: the content of a table cell starts with no list, callout or code block active,
\* whatever encloses the table; and when the table's handler returns the context is
\* what it was when the table was entered.
C5_Step ==
    /\ AtCellEntry' => NoneActive'
    /\ (Walking /\ Top.fn = "parse_table_type" /\ Len(stack') = Len(stack) - 1)
          => Context' = Top.entry_context
C5_CellsAreScopes == [][C5_Step]_vars

\* the cell whose content the walk is in: the current cell of the innermost table
TableFrames == {j \in 1..(Len(stack) - 1) : stack[j].fn = "parse_table_type"}
EnclosingCell ==
    IF TableFrames = {}
    THEN NoCell
    ELSE LET j == CHOOSE x \in TableFrames : \A y \in TableFrames : y <= x
             f == stack[j]
         IN  table_cell(document, f.table, f.placed[f.k - 1].row_idx,
                        f.placed[f.k - 1].col_idx)

\* C6: whenever the walk is about to handle a node, current_table_cell is the cell
\* whose content the node is in, and None when the node is in no cell.
C6_CursorFollowsCell ==
    AtNode => current_table_cell = EnclosingCell

\* the grid scan of the table the walk is at pops from the exhausted queue
PopFromExhausted == Exc("IndexError", "table_cell_objs_copy.pop")
DeclaresTooFewCells(content_obj) == ResolveTable(content_obj).err = PopFromExhausted

\* the grid cells the declarations could occupy at most: the sum of their spans' areas
RECURSIVE DeclaredArea(_)
DeclaredArea(objs) ==
    IF objs = <<>> THEN 0
    ELSE LET obj == Head(objs)
             rowspan == IF "attrs" \in DOMAIN obj /\ "rowspan" \in DOMAIN obj.attrs
                        THEN obj.attrs.rowspan ELSE 1
             colspan == IF "attrs" \in DOMAIN obj /\ "colspan" \in DOMAIN obj.attrs
                        THEN obj.attrs.colspan ELSE 1
         IN  rowspan * colspan + DeclaredArea(Tail(objs))
\* a table whose declarations cannot fill its grid, and whose scan leaves no span
\* outside the grid
CannotFillGrid(content_obj) ==
    LET g == ResolveTable(content_obj) IN
    /\ g.err \in {NoExc, PopFromExhausted}
    /\ DeclaredArea(g.table_cell_objs) < g.r * g.c

\* C9: at a table that declares fewer cells than its grid scan meets free slots (as
\* every table does whose declarations cannot fill the grid), the resolver raises on
\* the pop from the exhausted queue, the walk stops there, and the document is not
\* saved.
C9_Step ==
    /\ (At("table") /\ CannotFillGrid(Node)) => DeclaresTooFewCells(Node)
    /\ (At("table") /\ DeclaresTooFewCells(Node))
          => /\ exc' = PopFromExhausted
             /\ stack' = <<>>
             /\ ret' = "False"
             /\ saves' = 0
             /\ document' = document
C9_MalformedTableStops ==
    /\ [](exc = PopFromExhausted => (~Walking /\ saves = 0 /\ ret = "False"))
    /\ [][C9_Step]_vars

\* the walk of the table with a slot left over has just stopped
C9_Witness ==
    /\ exc = PopFromExhausted
    /\ ~Walking
    /\ Len(document.paras) > 1
    /\ document.tables = <<>>

----------------------------------------------------------------------------
(* The table resolver and the ordinal formatter on their own: each is applied *)
(* once to an input drawn from a bounded family, the walker standing still.   *)

\* sequences over S of length at most n
SeqUpTo(S, n) == UNION {[1..k -> S] : k \in 0..n}

Idle == UNCHANGED <<globals, control, first, declared, env_vars>>

\* cell declarations: plain, a colspan alone, a rowspan alone, both, and 1 x 1 spelled out
CellDeclarations ==
    { [type |-> "table_cell"],
      [type |-> "table_cell", attrs |-> [colspan |-> 2]],
      [type |-> "table_cell", attrs |-> [rowspan |-> 2]],
      [type |-> "table_cell", attrs |-> [rowspan |-> 2, colspan |-> 2]],
      [type |-> "table_cell", attrs |-> [rowspan |-> 1, colspan |-> 1]] }

MergeInputs ==
    [r : 0..MaxGridRows, c : 0..MaxGridCols, table_cell_objs : SeqUpTo(CellDeclarations, MaxCells)]

MergeInit ==
    /\ InitGlobals
    /\ InitControl
    /\ DefaultEnv
    /\ first = NoFirst
    /\ declared = "none"
    /\ fn_in \in MergeInputs
    /\ fn_out = <<>>

\* cell_merges = get_table_cell_merges(get_cell_tracking_table(r, c), table_cell_objs)
apply_get_table_cell_merges ==
    /\ fn_out = <<>>
    /\ fn_out' = << get_table_cell_merges(get_cell_tracking_table(fn_in.r, fn_in.c),
                                          fn_in.table_cell_objs) >>
    /\ UNCHANGED fn_in
    /\ Idle

MergeNext == apply_get_table_cell_merges
MergeSpec == MergeInit /\ [][MergeNext]_vars

\* table nodes of one to MaxTableRows rows of up to MaxRowCells declared cells
TableInputs ==
    { Table(rows) : rows \in SeqUpTo({Row(cells) : cells \in SeqUpTo(CellDeclarations, MaxRowCells)},
                                      MaxTableRows) \ {<<>>} }

DimInit ==
    /\ InitGlobals
    /\ InitControl
    /\ DefaultEnv
    /\ first = NoFirst
    /\ declared = "none"
    /\ fn_in \in TableInputs
    /\ fn_out = <<>>

\* r, c = get_table_dimensions(content_obj)
apply_get_table_dimensions ==
    /\ fn_out = <<>>
    /\ fn_out' = << get_table_dimensions(fn_in) >>
    /\ UNCHANGED fn_in
    /\ Idle

DimNext == apply_get_table_dimensions
DimSpec == DimInit /\ [][DimNext]_vars

OrdinalInputs == [level : 1..MaxLevel, list_depth : 1..MaxOrdinal]

OrdinalInit ==
    /\ InitGlobals
    /\ InitControl
    /\ DefaultEnv
    /\ first = NoFirst
    /\ declared = "none"
    /\ fn_in \in OrdinalInputs
    /\ fn_out = <<>>

\* get_ordered_list_char(ordered_list_level, list_depth), when it does not raise
apply_get_ordered_list_char ==
    /\ fn_out = <<>>
    /\ ~get_ordered_list_char_raises(fn_in.level, fn_in.list_depth)
    /\ fn_out' = << get_ordered_list_char(fn_in.level, fn_in.list_depth) >>
    /\ UNCHANGED fn_in
    /\ Idle

OrdinalNext == apply_get_ordered_list_char
OrdinalSpec == OrdinalInit /\ [][OrdinalNext]_vars

----------------------------------------------------------------------------
(* Properties of the table resolver and of the ordinal formatter *)

\* the grid of the scan's input, and the row-major order on it
Grid == (0..(fn_in.r - 1)) \X (0..(fn_in.c - 1))
RowMajorBefore(p, q) == p[1] < q[1] \/ (p[1] = q[1] /\ p[2] < q[2])
\* the spans the i-th declaration declares, 1 where it declares none
DeclaredSpan(i) ==
    LET obj == fn_in.table_cell_objs[i] IN
    << IF "attrs" \in DOMAIN obj /\ "rowspan" \in DOMAIN obj.attrs THEN obj.attrs.rowspan ELSE 1,
       IF "attrs" \in DOMAIN obj /\ "colspan" \in DOMAIN obj.attrs THEN obj.attrs.colspan ELSE 1 >>
\* the origin the scan gave the i-th declaration, and the grid cells of its rectangle
OriginOf(scan, i) == << scan.placed[i].row_idx, scan.placed[i].col_idx >>
RectangleOf(scan, i) ==
    { p \in Grid : /\ OriginOf(scan, i)[1] <= p[1]
                   /\ p[1] < OriginOf(scan, i)[1] + DeclaredSpan(i)[1]
                   /\ OriginOf(scan, i)[2] <= p[2]
                   /\ p[2] < OriginOf(scan, i)[2] + DeclaredSpan(i)[2] }
\* the grid cells the first i declarations occupy
OccupiedBy(scan, i) == UNION { RectangleOf(scan, j) : j \in 1..i }
IsFirstFree(scan, i, p) ==
    /\ p \in Grid \ OccupiedBy(scan, i)
    /\ \A q \in Grid \ OccupiedBy(scan, i) : q = p \/ RowMajorBefore(p, q)
\* the declarations with an origin whose span exceeds 1 x 1
Merged(scan) == { i \in 1..Len(scan.placed) : DeclaredSpan(i) # <<1, 1>> }

\* the table of the spec's example: one cell spanning two columns over two plain cells
ExampleTable ==
    Table(<< Row(<< [type |-> "table_cell", attrs |-> [colspan |-> 2]] >>),
             Row(<< [type |-> "table_cell"], [type |-> "table_cell"] >>) >>)

\* C7: the scan gives the i-th declared cell the i-th grid cell, in row-major order,
\* that no earlier declaration occupies, as its origin; it marks the origin and the
\* declared rectangle occupied, so a scan that ends without error has occupied the
\* whole grid; and it records a merge for exactly the declarations whose span exceeds
\* 1 x 1, at their origins.  The example table resolves to two columns, one merge
\* (0,0) -> (1,2), and the origins (0,0), (1,0), (1,1).
C7_Scan(scan) ==
    /\ Len(scan.placed) <= Len(fn_in.table_cell_objs)
    /\ \A i \in 1..Len(scan.placed) : IsFirstFree(scan, i - 1, OriginOf(scan, i))
    /\ scan.err = NoExc =>
          /\ OccupiedBy(scan, Len(scan.placed)) = Grid
          /\ \A p \in Grid : scan.cell_tracking[p[1]][p[2]]
    /\ { scan.cell_merges[k] : k \in 1..Len(scan.cell_merges) }
          = { [at |-> OriginOf(scan, i), span |-> DeclaredSpan(i)] : i \in Merged(scan) }
    /\ Len(scan.cell_merges) = Cardinality(Merged(scan))
C7_Example ==
    LET g == ResolveTable(ExampleTable) IN
    /\ g.err = NoExc
    /\ g.r = 2 /\ g.c = 2
    /\ g.cell_merges = << [at |-> <<0, 0>>, span |-> <<1, 2>>] >>
    /\ g.placed = << [row_idx |-> 0, col_idx |-> 0], [row_idx |-> 1, col_idx |-> 0],
                     [row_idx |-> 1, col_idx |-> 1] >>
C7_ScanAssignsFreeSlots ==
    /\ C7_Example
    /\ fn_out # <<>> => C7_Scan(fn_out[1])

\* a scan that placed a rowspan under which a later declaration had to be moved on
C7_Witness ==
    /\ fn_out # <<>>
    /\ fn_out[1].err = NoExc
    /\ fn_in.r = 2 /\ fn_in.c = 2
    /\ Len(fn_out[1].placed) = 3
    /\ DeclaredSpan(1) = <<2, 1>>
    /\ OriginOf(fn_out[1], 3) = <<1, 1>>

\* the width the first row declares: each cell's colspan, 1 for a cell that declares none
RECURSIVE DeclaredWidth(_)
DeclaredWidth(cells) ==
    IF cells = <<>> THEN 0
    ELSE (IF "attrs" \in DOMAIN Head(cells) /\ "colspan" \in DOMAIN Head(cells).attrs
          THEN Head(cells).attrs.colspan ELSE 1) + DeclaredWidth(Tail(cells))

\* C8: the table's rows are the number of its row nodes, and its columns the sum of
\* the colspans of the first row's cells, a cell without colspan or without attrs
\* counting as 1.
C8_Dimensions ==
    fn_out # <<>> =>
        /\ fn_out[1].err = NoExc
        /\ fn_out[1].num_rows = Len(fn_in.content)
        /\ fn_out[1].num_cols = DeclaredWidth(fn_in.content[1].content)

\* bijective base 26: 1 -> a, 26 -> z, 27 -> aa
RECURSIVE Bijective26(_)
Bijective26(n) ==
    IF n = 0 THEN <<>>
    ELSE Bijective26((n - 1) \div 26) \o << 97 + ((n - 1) % 26) >>

\* C10: at a level whose marker is alphabetic the ordinal is written in bijective base
\* 26 followed by a period: 1 is "a.", 26 is "z.", 27 is "aa."; every character before
\* the period is a lowercase letter.
C10_AlphabeticMarker ==
    (fn_out # <<>> /\ fn_in.level % 3 = 2) =>
        /\ fn_out[1] = Bijective26(fn_in.list_depth) \o <<46>>
        /\ \A i \in 1..(Len(fn_out[1]) - 1) : 97 <= fn_out[1][i] /\ fn_out[1][i] <= 122

\* the decimal numeral of n >= 1, most significant digit first
RECURSIVE DecimalNumeral(_)
DecimalNumeral(n) ==
    IF n < 10 THEN << 48 + n >>
    ELSE DecimalNumeral(n \div 10) \o << 48 + (n % 10) >>

\* the lowercase roman numeral of 1 <= n < 4000, digit by digit
RomanUnits == << <<>>, <<105>>, <<105, 105>>, <<105, 105, 105>>, <<105, 118>>, <<118>>,
                 <<118, 105>>, <<118, 105, 105>>, <<118, 105, 105, 105>>, <<105, 120>> >>
RomanTens == << <<>>, <<120>>, <<120, 120>>, <<120, 120, 120>>, <<120, 108>>, <<108>>,
                <<108, 120>>, <<108, 120, 120>>, <<108, 120, 120, 120>>, <<120, 99>> >>
RomanHundreds == << <<>>, <<99>>, <<99, 99>>, <<99, 99, 99>>, <<99, 100>>, <<100>>,
                    <<100, 99>>, <<100, 99, 99>>, <<100, 99, 99, 99>>, <<99, 109>> >>
LowerRoman(n) ==
    [i \in 1..(n \div 1000) |-> 109] \o RomanHundreds[((n \div 100) % 10) + 1]
        \o RomanTens[((n \div 10) % 10) + 1] \o RomanUnits[(n % 10) + 1]

IsLowercaseLetters(s) == \A i \in 1..Len(s) : 97 <= s[i] /\ s[i] <= 122

\* C11: the level modulo 3 alone selects the numbering system: remainder 1 gives the
\* decimal numeral of the ordinal, remainder 2 a marker of lowercase letters, remainder
\* 0 the lowercase roman numeral, each followed by a period; and the marker at level
\* d + 3 is the marker at level d.
C11_SystemByLevel ==
    fn_out # <<>> =>
        LET d == fn_in.level
            p == fn_in.list_depth
            marker == fn_out[1]
        IN  /\ Len(marker) >= 2
            /\ marker[Len(marker)] = 46
            /\ d % 3 = 1 => marker = DecimalNumeral(p) \o <<46>>
            /\ d % 3 = 2 => IsLowercaseLetters(SubSeq(marker, 1, Len(marker) - 1))
            /\ d % 3 = 0 => marker = LowerRoman(p) \o <<46>>
            /\ get_ordered_list_char(d + 3, p) = marker

----------------------------------------------------------------------------
(* Properties of check-list items, callouts and code blocks *)

\* the handler of a check-list item with content returns in this step
CheckItemReturns ==
    /\ Returned("parse_check_list_item_type")
    /\ stack' = SubSeq(stack, 1, Len(stack) - 2)
\* the runs of paragraph par of d that follow its first run holding the checked glyph
RunsAfterGlyph(d, par) ==
    LET runs == d.paras[par].runs
        hits == {i \in 1..Len(runs) : IsDirectRun(runs[i]) /\ Contains(runs[i].text, 9745)}
    IN  IF hits = {} THEN {}
        ELSE {i \in 1..Len(runs) : IsDirectRun(runs[i]) /\ \A j \in hits : i > j}
\* the paragraphs the item created while it was rendered as checked: those made during
\* its walk that start with the checked glyph
ItemParagraphs(d, entry_paras) ==
    {par \in (entry_paras + 1)..Len(d.paras) : RunsAfterGlyph(d, par) # {}}

\* C12: when the handler of a check-list item returns: if the item was rendered
\* checked, every run after the glyph run of the item's paragraph (the first paragraph
\* made for the item) is struck through; if it was rendered unchecked, the handler
\* has changed no run.
C12_Step ==
    CheckItemReturns =>
        IF Caller.checked
        THEN \A par \in ItemParagraphs(document', Caller.entry_paras) :
                 (\A q \in ItemParagraphs(document', Caller.entry_paras) : par <= q)
                     => \A i \in RunsAfterGlyph(document', par) :
                            document'.paras[par].runs[i].strike
        ELSE document' = document
C12_StrikeWhenChecked == [][C12_Step]_vars

\* the walk is at a check-list item that declares no checked state
AtUndeclaredCheckItem ==
    /\ At("check_list_item")
    /\ ~("attrs" \in DOMAIN Node /\ "checked" \in DOMAIN Node.attrs)

\* C13: a check-list item without attrs.checked is rendered with the state the
\* document's check-list items last declared before it, and unchecked when none of the
\* document being transpiled declared one: the glyph of its shadow text and the flag
\* its paragraphs read their glyph from say so.
C13_Step ==
    (AtUndeclaredCheckItem /\ Walking') =>
        /\ is_check_list_item_checked' = (declared = "checked")
        /\ "content" \in DOMAIN Node =>
              output' = output \o Repeat(STR_PAD, check_list_level)
                          \o (IF declared = "checked" THEN STR_CHECKED ELSE STR_UNCHECKED)
C13_StickyChecked == [][C13_Step]_vars

\* the callout context: the active flag and, while a callout is active, its emoji and
\* background colour (what they are while none is active has no effect)
CalloutContext(c) ==
    IF c.in_callout
    THEN << TRUE, c.callout_emoji, c.callout_bg_color >>
    ELSE << FALSE, NoneVal, NoneVal >>

\* C14: when the handler of a call_out_box returns, the callout context (flag, emoji,
\* background colour) is what it was when the node was entered: also for a callout
\* without content key, whose handler returns in the step that entered it, and for a
\* callout nested in another.
C14_Step ==
    /\ (At("call_out_box") /\ stack' = Advanced)
          => CalloutContext(Context') = CalloutContext(Context)
    /\ (Returned("parse_call_out_box") /\ stack' = SubSeq(stack, 1, Len(stack) - 2))
          => CalloutContext(Context') = CalloutContext(Caller.entry_context)
C14_CalloutScoped == [][C14_Step]_vars

\* the node the walk is at lies inside a code_block node
InsideCodeBlock == \E j \in 1..Len(stack) : stack[j].fn = "parse_code_block"
\* a text node appends a run to the current paragraph in this step
TextEmitted ==
    /\ At("text")
    /\ Live(document, current_paragraph)
    /\ document' # document
EmittedRun ==
    LET runs == document'.paras[current_paragraph.idx].runs IN runs[Len(runs)]

\* C15: the run of a text node has the monospace family when the node is inside a
\* code_block node and the default family otherwise; and the code-block flag is clear
\* when the handler of a code_block returns, with or without a content key.
C15_Step ==
    /\ TextEmitted =>
          EmittedRun.name = IF InsideCodeBlock THEN "Courier" ELSE "Helvetica"
    /\ (At("code_block") /\ stack' = Advanced) => ~in_code_block'
    /\ (Returned("parse_code_block") /\ stack' = SubSeq(stack, 1, Len(stack) - 2))
          => ~in_code_block'
C15_MonospaceInCodeOnly == [][C15_Step]_vars

----------------------------------------------------------------------------
(* Properties of the dispatch: missing keys, unknown types *)

\* the keys among attrs / content / text / marks that the handler of a type reads
ExpectedKeys(type) ==
    CASE type = "heading" -> {"attrs", "content"}
      [] type = "paragraph" -> {"marks", "content"}
      [] type = "text" -> {"text", "marks"}
      [] type \in {"bullet_list", "ordered_list", "check_list", "list_item",
                   "code_block", "blockquote", "table"} -> {"content"}
      [] type \in {"check_list_item", "call_out_box"} -> {"attrs", "content"}
      [] type = "image" -> {"attrs"}
      [] OTHER -> {}
\* the walk is at a node of a recognized type that lacks a key its handler reads,
\* and hands the handler a string
AtNodeLackingKey ==
    /\ AtNode
    /\ ~Unhandled(Node)
    /\ ExpectedKeys(Node.type) \ DOMAIN Node # {}
    /\ output # NoneVal

\* C16: a node of a recognized type that lacks any of attrs / content / text / marks
\* is processed without an error, and its handler hands on a string shadow text, so
\* that the walk goes on with the node's siblings.
C16_Step ==
    AtNodeLackingKey =>
        /\ Walking'
        /\ exc' = NoExc
        /\ output' # NoneVal
C16_MissingKeysAreDefaults == [][C16_Step]_vars

\* the 14 node types the walker knows
RecognizedTypes ==
    {"paragraph", "heading", "text", "bullet_list", "ordered_list", "check_list",
     "list_item", "check_list_item", "table", "image", "horizontal_rule",
     "call_out_box", "code_block", "blockquote"}
AtUnrecognizedNode ==
    /\ AtNode
    /\ IF "type" \in DOMAIN Node THEN Node.type \notin RecognizedTypes ELSE TRUE

\* C17: a node of no recognized type, or without type key, is skipped: the document
\* and every traversal-context global stay as they are, the shadow text is handed on
\* unchanged, no exception is raised, and the walk is at the next sibling.
C17_Step ==
    AtUnrecognizedNode =>
        /\ globals' = globals
        /\ output' = output
        /\ exc' = exc
        /\ stack' = Advanced
C17_UnknownTypesSkipped == [][C17_Step]_vars

\* the walk of note 2 is past its node of unknown type and its node without type
C17_Witness ==
    /\ bn = 2
    /\ Len(stack) = 2
    /\ Top.i = 6
    /\ AtNode
    /\ exc = NoExc
    /\ Len(document.paras) = 4

----------------------------------------------------------------------------
(* Properties of images and of the image search *)

\* the directories from the file system's root down to the note's own directory
NoteDirectories == {SubSeq(current_path, 1, k) : k \in 0..(Len(current_path) - 1)}
\* the candidate path of an image under directory dir: the note's image folder there
CandidateIn(dir, img_file_name) ==
    LET note == current_path[Len(current_path)]
    IN  dir \o << <<66, 111, 120, 32, 78, 111, 116, 101, 115, 32, 73, 109, 97, 103, 101, 115>>,
                  SubSeq(note, 1, Len(note) - 8) \o <<32, 73, 109, 97, 103, 101, 115>>,
                  img_file_name >>
\* the walk is at an image node that names a file found at no candidate path
AtMissingImage ==
    /\ At("image")
    /\ "attrs" \in DOMAIN Node
    /\ "fileName" \in DOMAIN Node.attrs
    /\ \A dir \in NoteDirectories : CandidateIn(dir, Node.attrs.fileName) \notin ExistingFiles
    /\ output # NoneVal
\* "MISSING IMAGE: "
MissingImageText == <<77, 73, 83, 83, 73, 78, 71, 32, 73, 77, 65, 71, 69, 58, 32>>

\* C18: at an image whose file is found at no candidate path, exactly one run, with
\* the text "MISSING IMAGE: " and the file name and without picture, is appended to
\* the current paragraph, nothing else of the document changes (no picture is
\* embedded), and the walk goes on with the next sibling without an exception.
\* (A current paragraph left over in a cell of an earlier document is not part of the
\* document being built; the run it gets is not followed, the document is unchanged.)
C18_Step ==
    AtMissingImage =>
        /\ IF Live(document, current_paragraph)
           THEN LET idx == current_paragraph.idx
                    runs == document.paras[idx].runs
                    runs_after == document'.paras[idx].runs
                IN  /\ Len(runs_after) = Len(runs) + 1
                    /\ SubSeq(runs_after, 1, Len(runs)) = runs
                    /\ runs_after[Len(runs_after)].text
                          = MissingImageText \o Node.attrs.fileName
                    /\ runs_after[Len(runs_after)].picture = NoPath
                    /\ [document' EXCEPT !.paras[idx].runs = runs] = document
           ELSE document' = document
        /\ stack' = Advanced
        /\ exc' = NoExc
        /\ output' # NoneVal
ImageInputs ==
    [current_path : { root \o dirs \o <<NOTE_A>> :
                          root \in BOX_ROOTS, dirs \in SeqUpTo({DIR_P, DIR_Q}, MaxDirDepth) },
     img_file_name : {IMG_I, IMG_J, IMG_K}]

ImageInit ==
    /\ InitGlobals
    /\ InitControl
    /\ DefaultEnv
    /\ first = NoFirst
    /\ declared = "none"
    /\ fn_in \in ImageInputs
    /\ fn_out = <<>>

\* current_path = path.absolute()
set_current_path ==
    /\ current_path = <<>>
    /\ current_path' = fn_in.current_path
    /\ UNCHANGED <<document, current_paragraph, use_table_cell_paragraph, current_table_cell,
                   list_vars, callout_vars, in_code_block, control, env_vars, obs_vars>>

\* image_file_path = get_image_path(image_file_name)
apply_get_image_path ==
    /\ current_path # <<>>
    /\ fn_out = <<>>
    /\ fn_out' = << get_image_path(fn_in.img_file_name) >>
    /\ UNCHANGED fn_in
    /\ Idle

ImageNext == set_current_path \/ apply_get_image_path
ImageSpec == ImageInit /\ [][ImageNext]_vars

IsPrefix(s, t) == Len(s) <= Len(t) /\ SubSeq(t, 1, Len(s)) = s

\* C19: for a note in a recognised Box root or below it, get_image_path answers None
\* or a path below that root: a file that lies in no directory at or below the root is
\* never found, since no directory above the root is probed.
C19_SearchStaysBelowRoot ==
    fn_out # <<>> =>
        \A root \in BOX_ROOTS :
            IsPrefix(root, fn_in.current_path) =>
                (fn_out[1] = NoPath \/ IsPrefix(root, fn_out[1]))

\* The alignment loop on its own: paragraph nodes without marks, or with up to
\* MaxMarks marks, each an alignment mark of one of the four values or a strong mark.
AlignmentMarks ==
    { [type |-> "alignment", attrs |-> [alignment |-> a]] :
          a \in {"center", "right", "justify", "left"} }

AlignmentInputs ==
    { [type |-> "paragraph"] } \cup
    { [type |-> "paragraph", marks |-> marks] :
          marks \in SeqUpTo(AlignmentMarks \cup { [type |-> "strong"] }, MaxMarks) }

AlignmentInit ==
    /\ InitGlobals
    /\ InitControl
    /\ DefaultEnv
    /\ first = NoFirst
    /\ declared = "none"
    /\ fn_in \in AlignmentInputs
    /\ fn_out = <<>>

\* the alignment handed to current_paragraph.alignment at line 365
apply_ParagraphAlignment ==
    /\ fn_out = <<>>
    /\ fn_out' = << ParagraphAlignment(fn_in) >>
    /\ UNCHANGED fn_in
    /\ Idle

AlignmentNext == apply_ParagraphAlignment
AlignmentSpec == AlignmentInit /\ [][AlignmentNext]_vars

\* the alignment marks of a paragraph node, in array order
AlignmentMarksOf(content_obj) ==
    IF "marks" \in DOMAIN content_obj
    THEN SelectSeq(content_obj.marks, LAMBDA mark_obj : mark_obj \in AlignmentMarks)
    ELSE <<>>

AlignmentNamed(a) ==
    IF a = "center" THEN "CENTER"
    ELSE IF a = "right" THEN "RIGHT"
    ELSE IF a = "justify" THEN "JUSTIFY"
    ELSE "LEFT"

\* C20: the alignment of a paragraph is the one named by the last alignment mark of
\* its marks array, and left when the paragraph has no alignment mark.
C20_LastAlignmentWins ==
    fn_out # <<>> =>
        LET align_marks == AlignmentMarksOf(fn_in) IN
        fn_out[1] = IF align_marks = <<>> THEN "LEFT"
                    ELSE AlignmentNamed(align_marks[Len(align_marks)].attrs.alignment)

----------------------------------------------------------------------------
(* Properties of convert_boxnote *)

\* the step is a call of convert_boxnote that got past the dry-run return
Converting == nconv' = nconv + 1 /\ ~DRY_RUN

\* C21: when the top-level JSON has no doc key, OldBoxNoteFormatError is raised
\* before a Document is created or changed and before anything is saved, and
\* convert_boxnote returns False: nothing leaves it for the batch loop.
C21_Step ==
    (Converting /\ "doc" \notin DOMAIN Corpus[bn'].bn_json) =>
        /\ document' = document
        /\ current_paragraph' = current_paragraph
        /\ output_exists' = output_exists
        /\ saves' = 0
        /\ stack' = <<>>
        /\ ret' = "False"
        /\ exc'.type = "OldBoxNoteFormatError"

C21_LegacyIsRouted == [][C21_Step]_vars

----------------------------------------------------------------------------
(* Properties of the list markers *)

\* the walk is at a paragraph that is a child of a list item or of a check-list item
AtItemParagraph ==
    /\ At("paragraph")
    /\ Len(stack) >= 2
    /\ Caller.fn \in {"parse_list_item_type", "parse_check_list_item_type"}

\* the kind of the innermost enclosing item: that of a check-list item, or that of
\* the list container the list item is a child of
ItemKind ==
    IF Caller.fn = "parse_check_list_item_type" THEN "check"
    ELSE IF ListFrames = <<>> THEN "none"
    ELSE LET container == ListFrames[Len(ListFrames)].fn IN
         IF container = "parse_bullet_list_type" THEN "bullet"
         ELSE IF container = "parse_ordered_list_type" THEN "ordered"
         ELSE "check"

ContainerOf(kind) ==
    IF kind = "bullet" THEN "parse_bullet_list_type"
    ELSE IF kind = "ordered" THEN "parse_ordered_list_type"
    ELSE "parse_check_list_type"

\* how many lists of the kind are open around the node
OpenLists(kind) == Len(SelectSeq(stack, LAMBDA f : f.fn = ContainerOf(kind)))

IsMarkerOf(kind, depth, text) ==
    IF kind = "bullet" THEN text = STR_BULLET
    ELSE IF kind = "check" THEN text \in {STR_CHECKED, STR_UNCHECKED}
    ELSE \E k \in 1..MaxOrdinal :
            /\ ~get_ordered_list_char_raises(depth, k)
            /\ text = get_ordered_list_char(depth, k) \o STR_SP

\* C22: a paragraph of a list item starts with (depth - 1) indentation runs and one
\* marker run, the runs it has before any text: the marker is that of the kind of
\* the innermost enclosing item, also when lists of different kinds are nested.
C22_Step ==
    (AtItemParagraph /\ ItemKind # "none" /\ Walking' /\ Live(document', current_paragraph')) =>
        LET runs == document'.paras[current_paragraph'.idx].runs
            depth == OpenLists(ItemKind)
        IN  /\ Len(runs) = depth
            /\ \A i \in 1..(depth - 1) : runs[i].text = INDENT
            /\ IsMarkerOf(ItemKind, depth, runs[depth].text)

C22_MarkerOfInnermostItem == [][C22_Step]_vars

\* the walk is at the k-th node of an ordered list's content, a list item
AtOrderedItem(k) ==
    /\ At("list_item")
    /\ Top.i = k
    /\ Caller.fn = "parse_ordered_list_type"
    /\ \A i \in 1..k : IsType(Top.content_objs[i], "list_item")

\* C23: the k-th list item of an ordered list at depth d is rendered with the marker
\* of (d, k): the counter of depth d goes up by one for each item, before the item
\* is rendered, whatever ordered lists the earlier items of the list held.
C23_Step ==
    \A k \in 1..MaxOrdinal :
        (AtOrderedItem(k) /\ Walking') =>
            LET d == OpenLists("ordered") IN
            /\ d \in DOMAIN list_depths'
            /\ list_depths'[d] = k
            /\ "content" \in DOMAIN Node =>
                  /\ output' = output \o Repeat(STR_PAD, d)
                                      \o get_ordered_list_char(d, k) \o STR_SP
                  /\ in_ordered_list_item'

C23_OrdinalPerItem == [][C23_Step]_vars

\* the walk is at a list item that is a child of a list of the kind
AtItemOf(kind) ==
    /\ At("list_item")
    /\ Len(stack) >= 2
    /\ Caller.fn = ContainerOf(kind)
    /\ CanConcat(output)

\* the depths whose ordinal counter the step created or changed
ChangedDepths ==
    {k \in DOMAIN list_depths' : k \notin DOMAIN list_depths \/ list_depths'[k] # list_depths[k]}

\* C24: a list item of a bullet list is rendered as a bullet item and a list item of
\* an ordered list as an ordered item, also after an earlier item of the list held a
\* list of another kind; and a list item touches no ordinal counter of a depth at
\* which no ordered list is open.
C24_Step ==
    /\ AtItemOf("bullet") =>
          /\ Walking'
          /\ list_depths' = list_depths
          /\ "content" \in DOMAIN Node =>
                /\ in_bullet_list_item'
                /\ output' = output \o Repeat(STR_PAD, OpenLists("bullet")) \o STR_DASH
    /\ AtItemOf("ordered") =>
          /\ Walking'
          /\ ChangedDepths = {OpenLists("ordered")}
          /\ "content" \in DOMAIN Node =>
                /\ in_ordered_list_item'
                /\ \E k \in 1..MaxOrdinal :
                      output' = output \o Repeat(STR_PAD, OpenLists("ordered"))
                                       \o get_ordered_list_char(OpenLists("ordered"), k)
                                       \o STR_SP

C24_ItemKindIsContainerKind == [][C24_Step]_vars

----------------------------------------------------------------------------
(* Properties of convert_boxnote: the output file *)

\* C25: when the output path exists, convert_boxnote skips the note: no Document is
\* created and no walk begins, and document.save is not called on the existing file.
C25_Step ==
    /\ (nconv' = nconv + 1 /\ output_exists) =>
          /\ ~Walking'
          /\ document' = document
          /\ output_exists'
    /\ saves' = saves + 1 => ~output_exists

C25_ExistingOutputIsSkipped == [][C25_Step]_vars

----------------------------------------------------------------------------
(* Properties of the traversal context at the end of a walk *)

\* every list, callout and code-block node of the tree has a content key
RECURSIVE AllContainersHaveContent(_)
AllContainersHaveContent(content_objs) ==
    \A i \in 1..Len(content_objs) :
        LET content_obj == content_objs[i] IN
        /\ (\E t \in {"bullet_list", "ordered_list", "check_list", "call_out_box", "code_block"} :
                IsType(content_obj, t)) => "content" \in DOMAIN content_obj
        /\ "content" \in DOMAIN content_obj => AllContainersHaveContent(content_obj.content)

\* the walk of the current note returned without an error
WalkReturned == ~Walking /\ saves = 1

Balanced ==
    /\ bullet_list_level = 0
    /\ ordered_list_level = 0
    /\ check_list_level = 0
    /\ ~in_bullet_list_item
    /\ ~in_ordered_list_item
    /\ ~in_check_list_item
    /\ ~in_callout
    /\ ~in_code_block
    /\ current_table_cell = NoCell
    /\ ~use_table_cell_paragraph

\* C26: after a walk that returned without an error over a tree whose list, callout
\* and code-block nodes all have a content key, the traversal context is balanced.
C26_BalancedAfterWalk ==
    (WalkReturned /\ AllContainersHaveContent(Corpus[bn].bn_json.doc.content)) => Balanced

----------------------------------------------------------------------------
(* open_with_retry on its own.  fn_in is what the file system does at each attempt
   to open and load the note: it succeeds, times out, or fails otherwise.  fn_out
   holds the state of the call: num_tries, how many attempts were made (opens), the
   seconds slept so far, and how the call ended. *)

AttemptOutcomes == {"ok", "TimeoutError", "OtherError"}

RetryInit ==
    /\ InitGlobals
    /\ InitControl
    /\ DefaultEnv
    /\ first = NoFirst
    /\ declared = "none"
    /\ fn_in \in [1..MaxAttempts -> AttemptOutcomes]
    /\ fn_out = <<>>

\* a timeouts list one wait short
timeouts_short == <<1, 3, 5, 10>>

\* line 169
timeouts == <<1, 3, 5, 5, 10>>

\* lines 169-170: the call, up to the loop
open_with_retry ==
    /\ fn_out = <<>>
    /\ fn_out' = << [num_tries |-> 0, opens |-> 0, slept |-> <<>>, result |-> "running"] >>
    /\ UNCHANGED fn_in
    /\ Idle

\* lines 171-187: one pass of the loop, from path.open() to the break, the sleep
\* or the raise
open_attempt ==
    /\ fn_out # <<>>
    /\ fn_out[1].result = "running"
    /\ fn_out[1].opens < MaxAttempts
    /\ LET st == fn_out[1]
           outcome == fn_in[st.opens + 1]
           opened == [st EXCEPT !.opens = @ + 1]
       IN  fn_out' = <<
               IF outcome = "ok" THEN [opened EXCEPT !.result = "json"]
               ELSE IF outcome = "TimeoutError"
               THEN IF st.num_tries >= Len(timeouts)
                    THEN [opened EXCEPT !.result = "TimeoutError"]
                    ELSE [opened EXCEPT !.num_tries = @ + 1,
                                        !.slept = Append(@, timeouts[st.num_tries + 1])]
               ELSE [opened EXCEPT !.result = "OtherError"] >>
    /\ UNCHANGED fn_in
    /\ Idle

RetryNext == open_with_retry \/ open_attempt
RetrySpec == RetryInit /\ [][RetryNext]_vars /\ WF_vars(RetryNext)

\* the attempts before the n-th all timed out
TimedOutBefore(n) == \A i \in 1..(n - 1) : fn_in[i] = "TimeoutError"

RetryEnded == fn_out # <<>> /\ fn_out[1].result # "running"

RetryBounded ==
    fn_out # <<>> =>
        LET st == fn_out[1] IN
        /\ st.opens <= 6
        /\ Len(st.slept) <= 5
        /\ st.slept = SubSeq(<<1, 3, 5, 5, 10>>, 1, Len(st.slept))
        /\ TimedOutBefore(st.opens)
        /\ st.result = "running" =>
              /\ Len(st.slept) = st.opens
              /\ st.opens >= 1 => fn_in[st.opens] = "TimeoutError"
        /\ st.result = "TimeoutError" =>
              /\ st.opens = 6
              /\ fn_in[6] = "TimeoutError"
              /\ st.slept = <<1, 3, 5, 5, 10>>
        /\ st.result = "OtherError" =>
              /\ fn_in[st.opens] = "OtherError"
              /\ Len(st.slept) = st.opens - 1
        /\ st.result = "json" =>
              /\ fn_in[st.opens] = "ok"
              /\ Len(st.slept) = st.opens - 1

\* C27: open_with_retry terminates; under repeated TimeoutError it waits 1, 3, 5, 5
\* and 10 seconds between attempts and raises TimeoutError at the 6th timeout in a
\* row; another exception is raised at once, at the attempt it occurred at; a
\* successful attempt returns the JSON, and no attempt follows.
C27_RetryTerminates == []RetryBounded /\ <>RetryEnded /\ [][RetryEnded => UNCHANGED fn_out]_vars

\* the sixth attempt in a row timed out
C27_Witness ==
    /\ fn_out # <<>>
    /\ fn_out[1].result = "TimeoutError"
    /\ fn_out[1].opens = 6
    /\ fn_out[1].slept = <<1, 3, 5, 5, 10>>

====
